---- MODULE Spec2Model ----
(***************************************************************************)
(* A model of sismic's default statechart interpreter                      *)
(* (sismic/interpreter/default.py): event selection, transition selection, *)
(* conflict detection, micro-step creation and application, stabilization. *)
(* The interpreter runs one statechart, drawn in Init from a small family  *)
(* of charts; guards are opaque, so every evaluation of a guard may pass   *)
(* or fail.                                                                *)
(***************************************************************************)
EXTENDS Integers, Sequences, FiniteSets, TLC

VARIABLES chart, initialized, configuration, memory, event_queue, clock, time, last,
          left, arrival, bound_properties, ignore_contract, bound

vars == <<chart, initialized, configuration, memory, event_queue, clock, time, last,
          left, arrival, bound_properties, ignore_contract, bound>>

(* ------------------------------ bounds --------------------------------- *)
MaxQueue == 2      \* external events the environment keeps queued at once
MaxTime == 1       \* the clock stops advancing here

(* Absent values: None for a state or event name, 0 for a transition.      *)
None == "None"
ExternalEvents == {"e", "f"}
(* The events queued before execute is called, and its arguments.          *)
ActEvents == {"e"}
ExecuteEvents == {"press", "e"}
MaxStepsValues == {-1, 0, 1, 2}
(* The delays of the events passed to queue: 0 for a plain Event.          *)
Delays == {0, 1}

(* --------------------------- generic helpers --------------------------- *)
(* The element of a one-element set: {F(x) : x \in {e}} computes e once.   *)
Only(S) == CHOOSE x \in S : TRUE

Range(s) == {s[i] : i \in 1..Len(s)}

RECURSIVE Reverse(_)
Reverse(s) == IF s = <<>> THEN <<>> ELSE Append(Reverse(Tail(s)), Head(s))

RECURSIVE Flatten(_)
Flatten(ss) == IF ss = <<>> THEN <<>> ELSE Head(ss) \o Flatten(Tail(ss))

(* Python's sorted(): stable, ascending on an integer key K[x].            *)
RECURSIVE InsertByKey(_, _, _)
InsertByKey(x, s, K) ==
    IF s = <<>> THEN <<x>>
    ELSE IF K[Head(s)] <= K[x] THEN <<Head(s)>> \o InsertByKey(x, Tail(s), K)
    ELSE <<x>> \o s

RECURSIVE SortedBy(_, _)
SortedBy(s, K) ==
    IF s = <<>> THEN <<>>
    ELSE InsertByKey(s[Len(s)], SortedBy(SubSeq(s, 1, Len(s) - 1), K), K)

(* A set as a list, in ascending key order (keys are distinct).            *)
RECURSIVE SetToSortedSeq(_, _)
SetToSortedSeq(S, K) ==
    IF S = {} THEN <<>>
    ELSE LET m == CHOOSE x \in S : \A y \in S : K[x] <= K[y]
         IN <<m>> \o SetToSortedSeq(S \ {m}, K)

(* The order of Python strings on the state names the charts use.          *)
NameOrder == <<"A", "B", "C", "D", "E", "F", "H", "K", "P", "R1", "R2", "V", "X",
               "a", "b", "c", "d", "off", "on", "p", "q", "root", "u", "v", "w",
               "x", "y">>
NameIdx(n) == CHOOSE i \in 1..Len(NameOrder) : NameOrder[i] = n

(* ------------------------- statechart accessors ------------------------ *)
(* The accessors are computed once per chart from its children lists and   *)
(* kept in the chart record (Compiled below); the interpreter reads them   *)
(* through ParentFor, AncestorsFor, DepthFor, DescendantsFor,              *)
(* LeastCommonAncestor.                                                    *)
ChildrenFor(c, s) == c.children[s]

ParentOf(c, s) ==
    IF \E p \in c.states : s \in Range(c.children[p])
    THEN CHOOSE p \in c.states : s \in Range(c.children[p])
    ELSE None

RECURSIVE AncestorsOf(_, _)
AncestorsOf(c, s) ==
    LET p == ParentOf(c, s)
    IN IF p = None THEN <<>> ELSE <<p>> \o AncestorsOf(c, p)

RECURSIVE DescendantsOf(_, _)
DescendantsOf(c, s) ==
    LET kids == ChildrenFor(c, s)
    IN Flatten([i \in 1..Len(kids) |-> <<kids[i]>> \o DescendantsOf(c, kids[i])])

(* The first ancestor of a that is an ancestor of b (a state is not its    *)
(* own ancestor); None when there is none.                                 *)
CommonAncestor(c, a, b) ==
    LET aa == AncestorsOf(c, a)
        ab == Range(AncestorsOf(c, b))
        common == {i \in 1..Len(aa) : aa[i] \in ab}
    IN IF common = {} THEN None
       ELSE aa[CHOOSE i \in common : \A j \in common : i <= j]

Compiled(c) ==
    [states |-> c.states, root |-> c.root, children |-> c.children,
     kind |-> c.kind, initial |-> c.initial, memory |-> c.memory,
     transitions |-> c.transitions,
     on_entry |-> IF "on_entry" \in DOMAIN c THEN c.on_entry
                  ELSE [s \in c.states |-> <<>>],
     on_exit |-> IF "on_exit" \in DOMAIN c THEN c.on_exit
                 ELSE [s \in c.states |-> <<>>],
     contracts |-> IF "contracts" \in DOMAIN c THEN c.contracts ELSE {},
     parent |-> [s \in c.states |-> ParentOf(c, s)],
     ancestors |-> [s \in c.states |-> AncestorsOf(c, s)],
     descendants |-> [s \in c.states |-> DescendantsOf(c, s)],
     lca |-> [a \in c.states |-> [b \in c.states |-> CommonAncestor(c, a, b)]]]

ParentFor(c, s) == c.parent[s]
AncestorsFor(c, s) == c.ancestors[s]
DepthFor(c, s) == Len(AncestorsFor(c, s)) + 1
DescendantsFor(c, s) == c.descendants[s]
LeastCommonAncestor(c, a, b) == c.lca[a][b]

LeafFor(c, names) == {s \in names : Range(ChildrenFor(c, s)) \cap names = {}}

KindOf(c, s) == c.kind[s]

(* (depth, name) and (-depth, name) as integer sort keys.                  *)
DepthNameKey(c) ==
    [s \in c.states |-> DepthFor(c, s) * (Len(NameOrder) + 1) + NameIdx(s)]
DeepestFirstKey(c) ==
    [s \in c.states |-> (0 - DepthFor(c, s)) * (Len(NameOrder) + 1) + NameIdx(s)]
NameKey(c) == [s \in c.states |-> NameIdx(s)]

(* ------------------------------- charts -------------------------------- *)
(* A transition: guard = TRUE when it carries a guard (evaluated by the    *)
(* opaque evaluator); sends = the internal events its action emits.        *)
T(src, ev, tgt, g, prio, snd) ==
    [source |-> src, event |-> ev, target |-> tgt, guard |-> g,
     priority |-> prio, sends |-> snd]

(* An InternalEvent (delayed when d > 0) or a MetaEvent an action sends.   *)
Sent(n, d) == [name |-> n, delay |-> d, meta |-> FALSE]
SentMeta(n) == [name |-> n, delay |-> 0, meta |-> TRUE]

(* A contract condition of a state or of a transition (state = None): its  *)
(* kind, and for the invariants of a transition whether it is the          *)
(* evaluation before or after the action.                                  *)
Cond(state, transition, cond_type, at) ==
    [state |-> state, transition |-> transition, cond_type |-> cond_type, at |-> at]
NoCond == Cond(None, 0, "-", "-")

NoInitial(S) == [s \in S |-> None]

(* Compound root; a nested compound P; a Final child of the root.          *)
ChartSeq ==
    LET S == {"root", "P", "c", "d", "K", "F"}
    IN [states |-> S, root |-> "root",
        children |-> [s \in S |-> CASE s = "root" -> <<"P", "K", "F">>
                                    [] s = "P" -> <<"c", "d">>
                                    [] OTHER -> <<>>],
        kind |-> [s \in S |-> CASE s \in {"root", "P"} -> "compound"
                                [] s = "F" -> "final"
                                [] OTHER -> "atomic"],
        initial |-> [s \in S |-> CASE s = "root" -> "P" [] s = "P" -> "c"
                                   [] OTHER -> None],
        memory |-> NoInitial(S),
        transitions |-> <<
            T("c", "e", "d", TRUE, 0, <<>>),
            T("P", "e", "K", TRUE, 1, <<>>),
            T("c", "e", None, TRUE, 1, <<>>),
            T("c", None, "d", TRUE, 0, <<Sent("f", 0)>>),
            T("d", "e", "c", FALSE, 0, <<>>),
            T("K", "f", "F", TRUE, 0, <<>>),
            T("K", "e", "P", FALSE, 0, <<>>),
            T("c", "e", "K", TRUE, 0, <<>>) >>]

(* Orthogonal root with two compound regions (scenario S3), plus           *)
(* transitions that cross regions or share a source.                       *)
ChartPar ==
    LET S == {"root", "R1", "R2", "p", "q", "u", "v"}
    IN [states |-> S, root |-> "root",
        children |-> [s \in S |-> CASE s = "root" -> <<"R1", "R2">>
                                    [] s = "R1" -> <<"p", "q">>
                                    [] s = "R2" -> <<"u", "v">>
                                    [] OTHER -> <<>>],
        kind |-> [s \in S |-> CASE s = "root" -> "orthogonal"
                                [] s \in {"R1", "R2"} -> "compound"
                                [] OTHER -> "atomic"],
        initial |-> [s \in S |-> CASE s = "R1" -> "p" [] s = "R2" -> "u"
                                   [] OTHER -> None],
        memory |-> NoInitial(S),
        transitions |-> <<
            T("p", "e", "q", TRUE, 0, <<>>),
            T("p", "e", "v", TRUE, 0, <<>>),
            T("u", "e", "v", TRUE, 0, <<>>),
            T("u", "e", "u", TRUE, 0, <<>>),
            T("q", "f", "p", FALSE, 0, <<>>),
            T("v", "f", "u", FALSE, 0, <<>>),
            T("R1", "f", "q", TRUE, 0, <<>>),
            T("R1", "f", "p", TRUE, 0, <<>>) >>]

(* Compound root with an Orthogonal child X entered from outside.          *)
ChartNest ==
    LET S == {"root", "a", "X", "R1", "R2", "p", "q", "u", "v", "F"}
    IN [states |-> S, root |-> "root",
        children |-> [s \in S |-> CASE s = "root" -> <<"a", "X", "F">>
                                    [] s = "X" -> <<"R1", "R2">>
                                    [] s = "R1" -> <<"p", "q">>
                                    [] s = "R2" -> <<"u", "v">>
                                    [] OTHER -> <<>>],
        kind |-> [s \in S |-> CASE s = "X" -> "orthogonal"
                                [] s \in {"root", "R1", "R2"} -> "compound"
                                [] s = "F" -> "final"
                                [] OTHER -> "atomic"],
        initial |-> [s \in S |-> CASE s = "root" -> "a" [] s = "R1" -> "p"
                                   [] s = "R2" -> "u" [] OTHER -> None],
        memory |-> NoInitial(S),
        transitions |-> <<
            T("a", "e", "X", TRUE, 0, <<>>),
            T("a", "e", "q", TRUE, 0, <<>>),
            T("X", "f", "a", FALSE, 0, <<>>),
            T("p", "e", "q", TRUE, 0, <<>>),
            T("u", "e", "v", TRUE, 0, <<>>),
            T("X", "e", "F", TRUE, 1, <<>>),
            T("a", "f", "F", TRUE, 0, <<>>) >>]

(* Orthogonal root with a Final child beside a compound region.            *)
ChartParFinal ==
    LET S == {"root", "F", "R1", "p", "q"}
    IN [states |-> S, root |-> "root",
        children |-> [s \in S |-> CASE s = "root" -> <<"F", "R1">>
                                    [] s = "R1" -> <<"p", "q">>
                                    [] OTHER -> <<>>],
        kind |-> [s \in S |-> CASE s = "root" -> "orthogonal"
                                [] s = "R1" -> "compound"
                                [] s = "F" -> "final"
                                [] OTHER -> "atomic"],
        initial |-> [s \in S |-> CASE s = "R1" -> "p" [] OTHER -> None],
        memory |-> NoInitial(S),
        transitions |-> <<
            T("p", "e", "q", TRUE, 0, <<>>),
            T("q", "e", "p", FALSE, 0, <<>>) >>]

(* Compound C with a shallow history H, and compound D with a deep history *)
(* K and a nested compound E (scenario S5).                                *)
ChartHist ==
    LET S == {"root", "A", "C", "a", "b", "H", "D", "c", "E", "x", "y", "K"}
    IN [states |-> S, root |-> "root",
        children |-> [s \in S |-> CASE s = "root" -> <<"A", "C", "D">>
                                    [] s = "C" -> <<"a", "b", "H">>
                                    [] s = "D" -> <<"c", "E", "K">>
                                    [] s = "E" -> <<"x", "y">>
                                    [] OTHER -> <<>>],
        kind |-> [s \in S |-> CASE s \in {"root", "C", "D", "E"} -> "compound"
                                [] s = "H" -> "shallow"
                                [] s = "K" -> "deep"
                                [] OTHER -> "atomic"],
        initial |-> [s \in S |-> CASE s = "root" -> "A" [] s = "C" -> "a"
                                   [] s = "D" -> "c" [] s = "E" -> "x"
                                   [] OTHER -> None],
        memory |-> [s \in S |-> CASE s = "H" -> "a" [] s = "K" -> "c"
                                  [] OTHER -> None],
        transitions |-> <<
            T("A", "e", "C", TRUE, 0, <<>>),
            T("A", "e", "H", TRUE, 1, <<>>),
            T("a", "e", "b", FALSE, 0, <<>>),
            T("C", "f", "A", FALSE, 0, <<>>),
            T("A", "f", "K", TRUE, 0, <<>>),
            T("A", "f", "D", TRUE, 0, <<>>),
            T("c", "e", "E", FALSE, 0, <<>>),
            T("x", "e", "y", FALSE, 0, <<>>),
            T("D", "f", "A", FALSE, 0, <<>>) >>]

(* Compound C whose initial child is its shallow history H (default b).    *)
ChartInitHist ==
    LET S == {"root", "C", "a", "b", "H"}
    IN [states |-> S, root |-> "root",
        children |-> [s \in S |-> CASE s = "root" -> <<"C">>
                                    [] s = "C" -> <<"a", "b", "H">>
                                    [] OTHER -> <<>>],
        kind |-> [s \in S |-> CASE s \in {"root", "C"} -> "compound"
                                [] s = "H" -> "shallow"
                                [] OTHER -> "atomic"],
        initial |-> [s \in S |-> CASE s = "root" -> "C" [] s = "C" -> "H"
                                   [] OTHER -> None],
        memory |-> [s \in S |-> IF s = "H" THEN "b" ELSE None],
        transitions |-> <<
            T("b", "e", "a", TRUE, 0, <<>>),
            T("a", "e", "b", FALSE, 0, <<>>) >>]

(* Compound root whose initial child is a Final state.                     *)
ChartRootFinal ==
    LET S == {"root", "F"}
    IN [states |-> S, root |-> "root",
        children |-> [s \in S |-> IF s = "root" THEN <<"F">> ELSE <<>>],
        kind |-> [s \in S |-> IF s = "root" THEN "compound" ELSE "final"],
        initial |-> [s \in S |-> IF s = "root" THEN "F" ELSE None],
        memory |-> NoInitial(S),
        transitions |-> <<>>]

(* The light switch (scenario S1).                                         *)
ChartSwitch ==
    LET S == {"root", "off", "on"}
    IN [states |-> S, root |-> "root",
        children |-> [s \in S |-> IF s = "root" THEN <<"off", "on">> ELSE <<>>],
        kind |-> [s \in S |-> IF s = "root" THEN "compound" ELSE "atomic"],
        initial |-> [s \in S |-> IF s = "root" THEN "off" ELSE None],
        memory |-> NoInitial(S),
        transitions |-> <<
            T("off", "press", "on", FALSE, 0, <<>>),
            T("on", "press", "off", FALSE, 0, <<>>) >>]

(* Two orthogonal regions P and X with actions and a contract: leaving c   *)
(* sends the meta-event m, the transition from c to d sends f, entering d  *)
(* sends g, the transition from x to y sends h delayed by one; d goes back *)
(* to its parent P, y and d loop on themselves, X goes to its child y.     *)
(* State d has a precondition and an invariant, state c a postcondition,   *)
(* the transition from c to d a postcondition.                             *)
ActTransition == 3
ChartAct ==
    LET S == {"root", "P", "X", "c", "d", "x", "y"}
    IN [states |-> S, root |-> "root",
        children |-> [s \in S |-> CASE s = "root" -> <<"P", "X">>
                                    [] s = "P" -> <<"c", "d">>
                                    [] s = "X" -> <<"x", "y">>
                                    [] OTHER -> <<>>],
        kind |-> [s \in S |-> CASE s = "root" -> "orthogonal"
                                [] s \in {"P", "X"} -> "compound"
                                [] OTHER -> "atomic"],
        initial |-> [s \in S |-> CASE s = "P" -> "c" [] s = "X" -> "x"
                                   [] OTHER -> None],
        memory |-> NoInitial(S),
        transitions |-> <<
            T("X", "e", "y", TRUE, 0, <<>>),
            T("y", "e", "y", TRUE, 0, <<>>),
            T("c", "e", "d", FALSE, 0, <<Sent("f", 0)>>),
            T("d", "e", "P", FALSE, 0, <<>>),
            T("d", "f", "d", FALSE, 0, <<>>),
            T("x", "f", "y", FALSE, 0, <<Sent("h", 1)>>) >>,
        on_entry |-> [s \in S |-> IF s = "d" THEN <<Sent("g", 0)>> ELSE <<>>],
        on_exit |-> [s \in S |-> IF s = "c" THEN <<SentMeta("m")>> ELSE <<>>],
        contracts |-> {Cond("d", 0, "preconditions", "-"),
                       Cond("c", 0, "postconditions", "-"),
                       Cond("d", 0, "invariants", "-"),
                       Cond(None, ActTransition, "postconditions", "-")}]

Charts == <<Compiled(ChartSeq), Compiled(ChartPar), Compiled(ChartNest),
           Compiled(ChartParFinal), Compiled(ChartHist), Compiled(ChartInitHist),
           Compiled(ChartRootFinal), Compiled(ChartSwitch), Compiled(ChartAct)>>

(* A transition of a property statechart: its guard, when arg is given,    *)
(* compares the attribute of the meta-event (state, event or source) with  *)
(* arg.                                                                    *)
TM(src, ev, tgt, arg) ==
    [source |-> src, event |-> ev, target |-> tgt, guard |-> arg # None,
     priority |-> 0, sends |-> <<>>, arg |-> arg]

(* Property: state K is never entered.                                     *)
PropertyNeverK ==
    LET S == {"root", "w", "V"}
    IN [states |-> S, root |-> "root",
        children |-> [s \in S |-> IF s = "root" THEN <<"w", "V">> ELSE <<>>],
        kind |-> [s \in S |-> CASE s = "root" -> "compound" [] s = "V" -> "final"
                                [] OTHER -> "atomic"],
        initial |-> [s \in S |-> IF s = "root" THEN "w" ELSE None],
        memory |-> NoInitial(S),
        transitions |-> << TM("w", "state entered", "V", "K") >>]

(* Property: an event f that was sent is never consumed.                   *)
PropertySentNotConsumed ==
    LET S == {"root", "w", "y", "V"}
    IN [states |-> S, root |-> "root",
        children |-> [s \in S |-> IF s = "root" THEN <<"w", "y", "V">> ELSE <<>>],
        kind |-> [s \in S |-> CASE s = "root" -> "compound" [] s = "V" -> "final"
                                [] OTHER -> "atomic"],
        initial |-> [s \in S |-> IF s = "root" THEN "w" ELSE None],
        memory |-> NoInitial(S),
        transitions |-> << TM("w", "event sent", "y", "f"),
                           TM("y", "event consumed", "V", "f"),
                           TM("y", "step started", None, None) >>]

PropertyCharts == <<Compiled(PropertyNeverK), Compiled(PropertySentNotConsumed)>>

SourceOf(c, i) == c.transitions[i].source
TargetOf(c, i) == c.transitions[i].target
EventOf(c, i) == c.transitions[i].event
PriorityOf(c, i) == c.transitions[i].priority

(* ----------------------------- event queue ----------------------------- *)
(* EventQueue.push: entries are kept by (scheduled time, insertion order); *)
(* a delayed event is scheduled at the push time plus its delay.           *)
RECURSIVE InsertEntry(_, _)
InsertEntry(q, x) ==
    IF q = <<>> THEN <<x>>
    ELSE IF Head(q).time <= x.time THEN <<Head(q)>> \o InsertEntry(Tail(q), x)
    ELSE <<x>> \o q

(* A queued event: its scheduled time, its name, InternalEvent or not.     *)
Entry(t, name, delay, internal) ==
    [time |-> t + delay, name |-> name, internal |-> internal]

Push(q, t, name, delay, internal) == InsertEntry(q, Entry(t, name, delay, internal))

(* Variant: the first event is returned whatever its scheduled time.       *)
SelectEventIgnoringTime(q, t) ==
    IF q # <<>> THEN Head(q).name ELSE None

(* Interpreter._select_event(consume=False): the event due at time t.      *)
SelectEvent(q, t) ==
    IF q # <<>> /\ Head(q).time <= t THEN Head(q).name ELSE None

(* Variant: the due event queued last is popped, not the first.            *)
ConsumeLatest(q, t) ==
    LET due == {i \in 1..Len(q) : q[i].time <= t}
        m == CHOOSE i \in due : \A j \in due : j <= i
    IN IF due = {} THEN q
       ELSE [i \in 1..(Len(q) - 1) |-> IF i < m THEN q[i] ELSE q[i + 1]]

(* Interpreter._select_event(consume=True): the queue once the due event   *)
(* is popped.                                                              *)
ConsumeEvent(q, t) ==
    IF q # <<>> /\ Head(q).time <= t THEN Tail(q) ELSE q

(* ------------------------- transition selection ------------------------ *)
(* The transitions _select_transitions considers: source active, and no    *)
(* event or the name of the given event. Indices into chart.transitions,   *)
(* in the chart's order.                                                   *)
ConsideredTransitions(c, ev, states) ==
    SelectSeq([i \in 1..Len(c.transitions) |-> i],
              LAMBDA i : /\ SourceOf(c, i) \in states
                         /\ (EventOf(c, i) = None \/ EventOf(c, i) = ev))

(* Variant: every passing transition of the source, whatever its class.    *)
SelectAllPassing(c, ts, prios, passing) ==
    SelectSeq(ts, LAMBDA i : i \in passing)

(* The priority loop for one source: classes by descending priority; the   *)
(* first class with a passing guard gives every passing transition of it.  *)
RECURSIVE SelectByPriority(_, _, _, _)
SelectByPriority(c, ts, prios, passing) ==
    IF prios = <<>> THEN <<>>
    ELSE LET class == SelectSeq(ts, LAMBDA i : PriorityOf(c, i) = Head(prios))
             found == SelectSeq(class, LAMBDA i : i \in passing)
         IN IF found # <<>> THEN found
            ELSE SelectByPriority(c, ts, Tail(prios), passing)

PrioritiesDescending(c, ts) ==
    LET prios == {PriorityOf(c, ts[k]) : k \in 1..Len(ts)}
    IN Reverse(SetToSortedSeq(prios, [n \in prios |-> n]))

(* Variant: a selection shadows its own source only, not the ancestors.    *)
RECURSIVE SelectFromSourcesNoShadow(_, _, _, _, _)
SelectFromSourcesNoShadow(c, group, sources, passing, acc) ==
    IF sources = <<>> THEN acc
    ELSE LET source == Head(sources)
             ts == SelectSeq(group, LAMBDA i : SourceOf(c, i) = source)
             en == SelectSeq(ts, LAMBDA i : i \in passing)
             found == SelectSeq(en, LAMBDA i :
                          \A j \in Range(en) : PriorityOf(c, j) <= PriorityOf(c, i))
             next == IF source \in acc.ignored \/ found = <<>> THEN acc
                     ELSE [selected |-> acc.selected \o found,
                           ignored |-> acc.ignored \cup {source}]
         IN SelectFromSourcesNoShadow(c, group, Tail(sources), passing, next)

(* The loop over the sources of one group, deepest first (ties by name):   *)
(* acc = [selected, ignored].                                              *)
RECURSIVE SelectFromSources(_, _, _, _, _)
SelectFromSources(c, group, sources, passing, acc) ==
    IF sources = <<>> THEN acc
    ELSE LET source == Head(sources)
             ts == SelectSeq(group, LAMBDA i : SourceOf(c, i) = source)
             found == SelectByPriority(c, ts, PrioritiesDescending(c, ts), passing)
             next == IF source \in acc.ignored \/ found = <<>> THEN acc
                     ELSE [selected |-> acc.selected \o found,
                           ignored |-> acc.ignored \cup Range(AncestorsFor(c, source))
                                                   \cup {source}]
         IN SelectFromSources(c, group, Tail(sources), passing, next)

SourcesInOrder(c, group) ==
    SetToSortedSeq({SourceOf(c, group[k]) : k \in 1..Len(group)}, DeepestFirstKey(c))

(* Variant: the groups taken in the other order (eventless_first=False).   *)
SelectTransitionsEventFirst(c, ev, states, passing) ==
    LET considered == ConsideredTransitions(c, ev, states)
        eventless == SelectSeq(considered, LAMBDA i : EventOf(c, i) = None)
        withEvent == SelectSeq(considered, LAMBDA i : EventOf(c, i) # None)
        empty == [selected |-> <<>>, ignored |-> {}]
        first == SelectFromSources(c, withEvent, SourcesInOrder(c, withEvent),
                                   passing, empty)
    IN IF first.selected # <<>> THEN first.selected
       ELSE SelectFromSources(c, eventless, SourcesInOrder(c, eventless),
                              passing, first).selected

(* Interpreter._select_transitions (eventless_first, inner_first): the     *)
(* eventless group first, the event group only if nothing was selected.    *)
(* passing = the considered transitions whose guard is absent or true.     *)
SelectTransitions(c, ev, states, passing) ==
    LET considered == ConsideredTransitions(c, ev, states)
        eventless == SelectSeq(considered, LAMBDA i : EventOf(c, i) = None)
        withEvent == SelectSeq(considered, LAMBDA i : EventOf(c, i) # None)
        empty == [selected |-> <<>>, ignored |-> {}]
        first == SelectFromSources(c, eventless, SourcesInOrder(c, eventless),
                                   passing, empty)
    IN IF first.selected # <<>> THEN first.selected
       ELSE SelectFromSources(c, withEvent, SourcesInOrder(c, withEvent),
                              passing, first).selected

(* ------------------------- conflicts and ordering ---------------------- *)
(* The highest ancestor-or-self of state s strictly below lca.             *)
RECURSIVE LastBeforeLca(_, _, _, _)
LastBeforeLca(c, lca, ancestors, current) ==
    IF ancestors = <<>> \/ Head(ancestors) = lca THEN current
    ELSE LastBeforeLca(c, lca, Tail(ancestors), Head(ancestors))

(* Variant: the target is compared with the source and its descendants,    *)
(* not with the source's ancestor below lca.                               *)
LeavesRegionFromSource(c, i, lca) ==
    /\ TargetOf(c, i) # None
    /\ TargetOf(c, i) \notin
           {SourceOf(c, i)} \cup Range(DescendantsFor(c, SourceOf(c, i)))

(* Check (2) of _sort_transitions for one transition of a pair.            *)
LeavesRegion(c, i, lca) ==
    LET last_before_lca ==
            LastBeforeLca(c, lca, AncestorsFor(c, SourceOf(c, i)), SourceOf(c, i))
    IN /\ TargetOf(c, i) # None
       /\ TargetOf(c, i) \notin
              {last_before_lca} \cup Range(DescendantsFor(c, last_before_lca))

(* Variant: check (1), on the least common ancestor, is left out.          *)
PairErrorNoLcaCheck(c, t1, t2) ==
    LET lca == LeastCommonAncestor(c, SourceOf(c, t1), SourceOf(c, t2))
    IN IF lca # None /\ (LeavesRegion(c, t1, lca) \/ LeavesRegion(c, t2, lca))
       THEN "ConflictingTransitions"
       ELSE "ok"

(* The verdict on one pair, as the body of the combinations loop gives it. *)
PairError(c, t1, t2) ==
    LET lca == LeastCommonAncestor(c, SourceOf(c, t1), SourceOf(c, t2))
    IN IF lca = None THEN "StatechartError"      \* state_for(None)
       ELSE IF KindOf(c, lca) # "orthogonal" THEN "NonDeterminism"
       ELSE IF LeavesRegion(c, t1, lca) \/ LeavesRegion(c, t2, lca)
            THEN "ConflictingTransitions"
       ELSE "ok"

(* itertools.combinations(transitions, 2): pairs (i, j), i < j, in         *)
(* lexicographic order of positions.                                       *)
Combinations(n) ==
    Flatten([i \in 1..n |-> [k \in 1..(n - i) |-> <<i, i + k>>]])

RECURSIVE FirstPairError(_, _, _)
FirstPairError(c, transitions, pairs) ==
    IF pairs = <<>> THEN "ok"
    ELSE LET e == PairError(c, transitions[Head(pairs)[1]], transitions[Head(pairs)[2]])
         IN IF e # "ok" THEN e ELSE FirstPairError(c, transitions, Tail(pairs))

(* Variant: the transitions are ordered by the name of their source only.  *)
SortTransitionsByName(c, transitions) ==
    LET err == IF Len(transitions) > 1
               THEN FirstPairError(c, transitions, Combinations(Len(transitions)))
               ELSE "ok"
        key == [i \in 1..Len(c.transitions) |-> NameKey(c)[SourceOf(c, i)]]
    IN [err |-> err,
        order |-> IF Len(transitions) > 1 THEN SortedBy(transitions, key)
                  ELSE transitions]

(* Interpreter._sort_transitions: the error raised, or the order of        *)
(* processing: deepest source first, ties by source name.                  *)
SortTransitions(c, transitions) ==
    LET err == IF Len(transitions) > 1
               THEN FirstPairError(c, transitions, Combinations(Len(transitions)))
               ELSE "ok"
        key == [i \in 1..Len(c.transitions) |-> DeepestFirstKey(c)[SourceOf(c, i)]]
    IN [err |-> err,
        order |-> IF Len(transitions) > 1 THEN SortedBy(transitions, key)
                  ELSE transitions]

(* ------------------------------ micro steps ---------------------------- *)
MicroStep(ev, t, entered, exited) ==
    [event |-> ev, transition |-> t, entered_states |-> entered,
     exited_states |-> exited]

RECURSIVE EnteredPath(_, _, _)
EnteredPath(lca, to_ancestors, acc) ==
    IF to_ancestors = <<>> \/ Head(to_ancestors) = lca THEN acc
    ELSE EnteredPath(lca, Tail(to_ancestors), <<Head(to_ancestors)>> \o acc)

(* Variant: a transition to its own source or to an ancestor of it exits   *)
(* and enters nothing.                                                     *)
CreateStepInside(c, conf, ev, i) ==
    IF TargetOf(c, i) = None THEN MicroStep(ev, i, <<>>, <<>>)
    ELSE IF TargetOf(c, i) \in {SourceOf(c, i)} \cup Range(AncestorsFor(c, SourceOf(c, i)))
    THEN MicroStep(ev, i, <<>>, <<>>)
    ELSE LET source == SourceOf(c, i)
             target == TargetOf(c, i)
             lca == LeastCommonAncestor(c, source, target)
             last_before_lca == LastBeforeLca(c, lca, AncestorsFor(c, source), source)
             below == SelectSeq(Reverse(DescendantsFor(c, last_before_lca)),
                                LAMBDA d : d \in conf)
             exited == IF last_before_lca \in conf
                       THEN Append(below, last_before_lca) ELSE below
             entered == EnteredPath(lca, AncestorsFor(c, target), <<target>>)
         IN MicroStep(ev, i, entered, exited)

(* The body of the loop of _create_steps, for one transition.              *)
CreateStep(c, conf, ev, i) ==
    IF TargetOf(c, i) = None THEN MicroStep(ev, i, <<>>, <<>>)
    ELSE LET source == SourceOf(c, i)
             target == TargetOf(c, i)
             lca == LeastCommonAncestor(c, source, target)
             last_before_lca == LastBeforeLca(c, lca, AncestorsFor(c, source), source)
             below == SelectSeq(Reverse(DescendantsFor(c, last_before_lca)),
                                LAMBDA d : d \in conf)
             exited == IF last_before_lca \in conf
                       THEN Append(below, last_before_lca) ELSE below
             entered == EnteredPath(lca, AncestorsFor(c, target), <<target>>)
         IN MicroStep(ev, i, entered, exited)

(* Interpreter._create_steps: every step is computed on the configuration  *)
(* as it is before any of them is applied.                                 *)
CreateSteps(c, conf, ev, transitions) ==
    [k \in 1..Len(transitions) |-> CreateStep(c, conf, ev, transitions[k])]

NoStep == [none |-> TRUE]

(* Variant: a history state always gives its default memory.               *)
LeafStepDefaultMemory(c, mem, leaf) ==
    IF KindOf(c, leaf) = "final" /\ ParentFor(c, leaf) = c.root
    THEN MicroStep(None, 0, <<>>, <<leaf, c.root>>)
    ELSE IF KindOf(c, leaf) \in {"shallow", "deep"}
    THEN MicroStep(None, 0, <<c.memory[leaf]>>, <<leaf>>)
    ELSE IF KindOf(c, leaf) = "orthogonal" /\ ChildrenFor(c, leaf) # <<>>
    THEN MicroStep(None, 0, SortedBy(ChildrenFor(c, leaf), NameKey(c)), <<>>)
    ELSE IF KindOf(c, leaf) = "compound" /\ c.initial[leaf] # None
    THEN MicroStep(None, 0, <<c.initial[leaf]>>, <<>>)
    ELSE NoStep

(* Interpreter._create_stabilization_step for one leaf; NoStep when the    *)
(* leaf gives no step.                                                     *)
LeafStep(c, mem, leaf) ==
    IF KindOf(c, leaf) = "final" /\ ParentFor(c, leaf) = c.root
    THEN MicroStep(None, 0, <<>>, <<leaf, c.root>>)
    ELSE IF KindOf(c, leaf) \in {"shallow", "deep"}
    THEN LET states_to_enter == IF leaf \in DOMAIN mem THEN mem[leaf]
                                ELSE {c.memory[leaf]}
         IN MicroStep(None, 0, SetToSortedSeq(states_to_enter, DepthNameKey(c)),
                      <<leaf>>)
    ELSE IF KindOf(c, leaf) = "orthogonal" /\ ChildrenFor(c, leaf) # <<>>
    THEN MicroStep(None, 0, SortedBy(ChildrenFor(c, leaf), NameKey(c)), <<>>)
    ELSE IF KindOf(c, leaf) = "compound" /\ c.initial[leaf] # None
    THEN MicroStep(None, 0, <<c.initial[leaf]>>, <<>>)
    ELSE NoStep

(* Variant: only the first leaf is looked at.                              *)
FirstLeafStepOnly(c, mem, leaves) ==
    IF leaves = <<>> THEN NoStep ELSE LeafStep(c, mem, Head(leaves))

RECURSIVE FirstLeafStep(_, _, _)
FirstLeafStep(c, mem, leaves) ==
    IF leaves = <<>> THEN NoStep
    ELSE IF LeafStep(c, mem, Head(leaves)) # NoStep THEN LeafStep(c, mem, Head(leaves))
    ELSE FirstLeafStep(c, mem, Tail(leaves))

(* Interpreter._create_stabilization_step: leaves by (-depth, name).       *)
CreateStabilizationStep(c, conf, mem) ==
    FirstLeafStep(c, mem, SetToSortedSeq(LeafFor(c, conf), DeepestFirstKey(c)))

(* --------------------------- applying a step --------------------------- *)
(* Variant: a deep history memorises the active direct children only, as   *)
(* a shallow one does, and nothing is asserted.                            *)
RECURSIVE MemorizeHistoryChildrenOnly(_, _, _, _, _)
MemorizeHistoryChildrenOnly(c, state, kids, active, r) ==
    IF kids = <<>> \/ r.err # "ok" THEN r
    ELSE LET child == Head(kids)
             deep == active \cap Range(ChildrenFor(c, state))
             shallow == active \cap Range(ChildrenFor(c, state))
             set(h, v) == [x \in DOMAIN r.mem \cup {h} |->
                               IF x = h THEN v ELSE r.mem[x]]
             next == IF KindOf(c, child) = "deep"
                     THEN [mem |-> set(child, deep), err |-> "ok"]
                     ELSE IF KindOf(c, child) = "shallow"
                     THEN [mem |-> set(child, shallow), err |-> "ok"]
                     ELSE r
         IN MemorizeHistoryChildrenOnly(c, state, Tail(kids), active, next)

(* "Deal with history" of _apply_step for the children of an exited        *)
(* compound state; active is the configuration copied when the micro step  *)
(* began. r = [mem, err].                                                  *)
RECURSIVE MemorizeHistory(_, _, _, _, _)
MemorizeHistory(c, state, kids, active, r) ==
    IF kids = <<>> \/ r.err # "ok" THEN r
    ELSE LET child == Head(kids)
             deep == active \cap Range(DescendantsFor(c, state))
             shallow == active \cap Range(ChildrenFor(c, state))
             set(h, v) == [x \in DOMAIN r.mem \cup {h} |->
                               IF x = h THEN v ELSE r.mem[x]]
             next == IF KindOf(c, child) = "deep"
                     THEN IF Cardinality(deep) >= 1
                          THEN [mem |-> set(child, deep), err |-> "ok"]
                          ELSE [r EXCEPT !.err = "AssertionError"]
                     ELSE IF KindOf(c, child) = "shallow"
                     THEN IF Cardinality(shallow) = 1
                          THEN [mem |-> set(child, shallow), err |-> "ok"]
                          ELSE [r EXCEPT !.err = "AssertionError"]
                     ELSE r
         IN MemorizeHistory(c, state, Tail(kids), active, next)

(* What an observer of the exit loop notes for an exited state with a      *)
(* history child: its descendants that were active when the micro step     *)
(* began.                                                                  *)
NoteLeft(c, lf, state, active) ==
    IF \A k \in Range(ChildrenFor(c, state)) : KindOf(c, k) \notin {"shallow", "deep"}
    THEN lf
    ELSE [x \in DOMAIN lf \cup {state} |->
             IF x = state THEN active \cap Range(DescendantsFor(c, state))
             ELSE lf[x]]

(* A meta-event: its name and the attribute the property statecharts read. *)
Meta(name, arg) == [name |-> name, arg |-> arg]

(* Interpreter._notify_properties, defined with the property statecharts   *)
(* below: the bound properties once each has been given the meta-event and *)
(* has executed.                                                           *)
RECURSIVE NotifyProperties(_, _, _)

(* One line of what a call did, in the order it did it: op says what     *)
(* ("step" a micro step begins, "exit" a state leaves the configuration,   *)
(* "action" the action of a transition runs, "enter" a state joins the     *)
(* configuration, "push" an event joins the queue, "deliver" a listener is *)
(* called, "notify" the property statecharts get a meta-event and run,     *)
(* "raise" a contract condition is found unsatisfied and its exception     *)
(* leaves the call).                                                       *)
Did(op, name, arg, n, d) == [op |-> op, name |-> name, arg |-> arg, n |-> n, d |-> d]

(* Variant: the call is left as soon as a property statechart is in a      *)
(* final configuration after a notification.                               *)
NotifiedRaises(r, meta, t) ==
    Only({Only({[x EXCEPT !.props = p,
                          !.err = IF \E k \in 1..Len(p) :
                                         p[k].initialized /\ p[k].configuration = {}
                                  THEN "PropertyStatechartError" ELSE @,
                          !.log = Append(@, Did("notify", meta.name, meta.arg,
                                      IF \E k \in 1..Len(p) :
                                             p[k].initialized /\ p[k].configuration = {}
                                      THEN 1 ELSE 0, 0))]
                : p \in {NotifyProperties(x.props, meta, t)}})
          : x \in {r}})

(* Interpreter._notify_properties on the interpreter state r; the line     *)
(* notes whether a property statechart is in a final configuration once    *)
(* all have run.                                                           *)
Notified(r, meta, t) ==
    Only({Only({[x EXCEPT !.props = p,
                          !.log = Append(@, Did("notify", meta.name, meta.arg,
                                      IF \E k \in 1..Len(p) :
                                             p[k].initialized /\ p[k].configuration = {}
                                      THEN 1 ELSE 0, 0))]
                : p \in {NotifyProperties(x.props, meta, t)}})
          : x \in {r}})

(* Successive calls of _notify_properties.                                 *)
RECURSIVE NotifiedAll(_, _, _)
NotifiedAll(r, metas, t) ==
    IF metas = <<>> THEN r
    ELSE NotifiedAll(Notified(r, Head(metas), t), Tail(metas), t)

(* Interpreter._evaluate_contract_conditions: the exception it raises, or  *)
(* "ok". options.unsatisfied holds the conditions the evaluator finds      *)
(* unsatisfied.                                                            *)
ContractError(cond_type) ==
    CASE cond_type = "preconditions" -> "PreconditionError"
      [] cond_type = "postconditions" -> "PostconditionError"
      [] cond_type = "invariants" -> "InvariantError"

(* Variant: the conditions are evaluated whatever ignore_contract.         *)
EvaluateContractConditionsAlways(options, cond) ==
    IF cond \in options.unsatisfied THEN ContractError(cond.cond_type)
    ELSE "ok"

EvaluateContractConditions(options, cond) ==
    IF options.ignore_contract THEN "ok"
    ELSE IF cond \in options.unsatisfied THEN ContractError(cond.cond_type)
    ELSE "ok"

(* The interpreter state r when the evaluation of cond raised or not.      *)
Evaluated(r, cond) ==
    Only({IF x.err # "ok" THEN x
          ELSE IF EvaluateContractConditions(x.options, cond) = "ok" THEN x
          ELSE [x EXCEPT !.err = EvaluateContractConditions(x.options, cond),
                         !.failed = cond,
                         !.log = Append(@, Did("raise", ContractError(cond.cond_type),
                                               cond.state, cond.transition, 0))]
          : x \in {r}})

(* _apply_step, lines 617-624: the state leaves the configuration, its     *)
(* postconditions are evaluated, the properties are notified.              *)
Removed(c, r, state, active, mem, t) ==
    Only({IF x.err # "ok" THEN x
          ELSE Notified(x, Meta("state exited", state), t)
          : x \in {Evaluated([r EXCEPT !.conf = @ \ {state}, !.mem = mem,
                                       !.left = NoteLeft(c, @, state, active),
                                       !.log = Append(@, Did("exit", state, None, 0, 0))],
                             Cond(state, 0, "postconditions", "-"))}})

(* The body of the exit loop of _apply_step, lines 598-624, for one state: *)
(* exit action, history, removal; set.remove of a state that is not active *)
(* raises KeyError.                                                        *)
ExitState(c, state, active, r, t) ==
    Only({IF h.err # "ok"
          THEN [r EXCEPT !.collected = @ \o c.on_exit[state], !.mem = h.mem,
                         !.err = h.err]
          ELSE IF state \notin r.conf
          THEN [r EXCEPT !.collected = @ \o c.on_exit[state], !.mem = h.mem,
                         !.err = "KeyError"]
          ELSE Removed(c, [r EXCEPT !.collected = @ \o c.on_exit[state]], state,
                       active, h.mem, t)
          : h \in {IF KindOf(c, state) = "compound"
                   THEN MemorizeHistory(c, state, ChildrenFor(c, state), active,
                                        [mem |-> r.mem, err |-> "ok"])
                   ELSE [mem |-> r.mem, err |-> "ok"]}})

(* The exit loop of _apply_step on the interpreter state r.                *)
RECURSIVE ExitStates(_, _, _, _, _)
ExitStates(c, exited, active, r, t) ==
    Only({IF exited = <<>> \/ x.err # "ok" THEN x
          ELSE ExitStates(c, Tail(exited), active,
                          ExitState(c, Head(exited), active, x, t), t)
          : x \in {r}})

(* The entries a push added: those of q2 that q lacks, as they stand in q2. *)
AddedEntries(q, q2) ==
    SelectSeq([i \in 1..Len(q2) |-> [at |-> i, entry |-> q2[i]]],
              LAMBDA x : Cardinality({j \in 1..x.at : q2[j] = x.entry})
                             > Cardinality({j \in 1..Len(q) : q[j] = x.entry}))

(* Variant: the events are pushed at the time after the macro step's.      *)
RECURSIVE RaiseEventsLate(_, _, _)
RaiseEventsLate(q, t, sent) ==
    IF sent = <<>> THEN q
    ELSE RaiseEventsLate(Push(q, t + 1, Head(sent).name, Head(sent).delay, TRUE),
                         t, Tail(sent))

(* Interpreter._raise_event, line 273: each internal event is pushed at    *)
(* the time of the macro step.                                             *)
RECURSIVE RaiseEvents(_, _, _)
RaiseEvents(q, t, sent) ==
    IF sent = <<>> THEN q
    ELSE RaiseEvents(Push(q, t, Head(sent).name, Head(sent).delay, TRUE), t, Tail(sent))

SentBy(c, step) ==
    IF step.transition = 0 THEN <<>> ELSE c.transitions[step.transition].sends

(* _apply_step, line 632: the action of the transition runs.               *)
Acted(c, r, step) ==
    Only({IF x.err # "ok" THEN x
          ELSE [x EXCEPT !.collected = @ \o SentBy(c, step),
                         !.log = Append(@, Did("action", None, None,
                                               step.transition, 0))]
          : x \in {r}})

(* _apply_step, lines 634-646: the postconditions and invariants of the    *)
(* transition after its action, then the properties are notified.          *)
Concluded(c, r, step, t) ==
    Only({IF x.err # "ok" THEN x
          ELSE Notified(x, Meta("transition processed",
                                SourceOf(c, step.transition)), t)
          : x \in {Evaluated(Evaluated(r,
                       Cond(None, step.transition, "postconditions", "-")),
                       Cond(None, step.transition, "invariants", "after"))}})

(* _apply_step, lines 627-646: the contract of the transition around its   *)
(* action, then the properties are notified.                               *)
Processed(c, r, step, t) ==
    Only({IF x.err # "ok" \/ step.transition = 0 THEN x
          ELSE Concluded(c,
                   Acted(c, Evaluated(Evaluated(x,
                               Cond(None, step.transition, "preconditions", "-")),
                               Cond(None, step.transition, "invariants", "before")),
                         step),
                   step, t)
          : x \in {r}})

(* Variant: a state joins the configuration before its preconditions are  *)
(* evaluated.                                                              *)
EnterStateAddsFirst(c, state, r, t) ==
    Only({IF x.err # "ok" THEN x
          ELSE Notified([x EXCEPT !.collected = @ \o c.on_entry[state]],
                        Meta("state entered", state), t)
          : x \in {Evaluated([r EXCEPT !.conf = @ \cup {state},
                                       !.log = Append(@, Did("enter", state, None, 0, 0))],
                             Cond(state, 0, "preconditions", "-"))}})

(* The body of the entry loop of _apply_step, lines 648-660, for one       *)
(* state: preconditions, entry action, the state joins the configuration,  *)
(* the properties are notified.                                            *)
EnterState(c, state, r, t) ==
    Only({IF x.err # "ok" THEN x
          ELSE Notified([x EXCEPT !.collected = @ \o c.on_entry[state],
                                  !.conf = @ \cup {state},
                                  !.log = Append(@, Did("enter", state, None, 0, 0))],
                        Meta("state entered", state), t)
          : x \in {Evaluated(r, Cond(state, 0, "preconditions", "-"))}})

(* The entry loop of _apply_step.                                          *)
RECURSIVE EnterStates(_, _, _, _)
EnterStates(c, entered, r, t) ==
    Only({IF entered = <<>> \/ x.err # "ok" THEN x
          ELSE EnterStates(c, Tail(entered), EnterState(c, Head(entered), x, t), t)
          : x \in {r}})

(* Variant: a meta-event goes the way of an internal event.                *)
IsMetaNever(event) == FALSE

(* isinstance(event, MetaEvent) in _raise_event.                           *)
IsMeta(event) == event.meta

(* Variant: only the first bound listener is called.                       *)
DeliveredToFirst(r, event) ==
    Only({[x EXCEPT !.log = @ \o [k \in 1..(IF x.options.bound = <<>> THEN 0 ELSE 1) |->
                                     Did("deliver", event.name,
                                         IF event.delay > 0 THEN "DelayedEvent"
                                         ELSE "Event",
                                         x.options.bound[k], event.delay)]]
          : x \in {r}})

(* Interpreter._raise_event, lines 279-285: each bound listener, in the    *)
(* order it was bound, is called with an Event, or a DelayedEvent of the   *)
(* same delay, of the name of the internal event.                          *)
Delivered(r, event) ==
    Only({[x EXCEPT !.log = @ \o [k \in 1..Len(x.options.bound) |->
                                     Did("deliver", event.name,
                                         IF event.delay > 0 THEN "DelayedEvent"
                                         ELSE "Event",
                                         x.options.bound[k], event.delay)]]
          : x \in {r}})

(* Interpreter._raise_event on the interpreter state r.                    *)
RaiseEvent(event, r, t) ==
    Only({IF IsMeta(event) THEN x ELSE Delivered(x, event)
          : x \in {Notified(IF IsMeta(event) THEN r
                            ELSE [r EXCEPT !.queue = RaiseEvents(@, t, <<event>>),
                                           !.log = Append(@, Did("push", event.name,
                                                                 "internal", 0,
                                                                 event.delay))],
                            Meta(CASE IsMeta(event) -> event.name
                                   [] event.delay > 0 -> "delayed event sent"
                                   [] OTHER -> "event sent",
                                 IF IsMeta(event) THEN None ELSE event.name), t)}})

(* _apply_step, lines 662-664: the events the actions of the micro step    *)
(* sent are raised, in the order they were sent.                           *)
RECURSIVE SendEvents(_, _, _)
SendEvents(events, r, t) ==
    Only({IF events = <<>> \/ x.err # "ok" THEN x
          ELSE SendEvents(Tail(events), RaiseEvent(Head(events), x, t), t)
          : x \in {r}})

(* The interpreter state as a micro step finds it: nothing collected yet;  *)
(* the "step" line notes, for the step of a transition, whether the        *)
(* configuration the step begins in is stable.                             *)
StepBegun(c, st, step) ==
    [st EXCEPT !.collected = <<>>,
               !.log = Append(@, Did("step",
                                     IF step.transition = 0 THEN "-"
                                     ELSE IF CreateStabilizationStep(c, st.conf, st.mem) = NoStep
                                     THEN "stable" ELSE "unstable",
                                     None, step.transition, 0))]

(* The interpreter state r a micro step left, the one before it being st:  *)
(* what the step did is added to what the call did.                        *)
StepDone(st, r, step, t) ==
    Only({IF x.err # "ok" THEN x
          ELSE Only({[x EXCEPT !.raised = @ \o [k \in 1..Len(added) |-> added[k].entry],
                               !.sent = @ \o SelectSeq(x.collected, LAMBDA e : ~e.meta),
                               !.fired = IF step.transition = 0 THEN @
                                         ELSE Append(@, step.transition),
                               !.entered = @ \o step.entered_states,
                               !.exited = @ \o step.exited_states,
                               !.applied = @ + 1]
                     : added \in {AddedEntries(st.queue, x.queue)}})
          : x \in {Only({SendEvents(y.collected, y, t) : y \in {r}})}})

(* Variant: the transition runs before the states are exited.              *)
ApplyStepActionFirst(c, st, step, t) ==
    Only({StepDone(s0, EnterStates(c, step.entered_states,
                           ExitStates(c, step.exited_states, s0.conf,
                               Processed(c, StepBegun(c, s0, step), step, t), t), t),
                   step, t)
          : s0 \in {st}})

(* Interpreter._apply_step on the interpreter state                        *)
(* st = [conf, mem, queue, err, fired, entered, exited, applied, left,     *)
(* raised, sent, props, options, collected, log, failed].                  *)
ApplyStep(c, st, step, t) ==
    Only({StepDone(s0, EnterStates(c, step.entered_states,
                           Processed(c,
                               ExitStates(c, step.exited_states, s0.conf,
                                          StepBegun(c, s0, step), t),
                               step, t), t),
                   step, t)
          : s0 \in {st}})

(* Variant: one stabilization step is applied, not as many as there are.   *)
StabilizeOnce(c, st, t) ==
    Only({Only({IF x.err # "ok" \/ step = NoStep THEN x
                ELSE ApplyStep(c, x, step, t)
                : step \in {CreateStabilizationStep(c, x.conf, x.mem)}})
          : x \in {st}})

(* Interpreter._stabilize.                                                 *)
RECURSIVE Stabilize(_, _, _)
Stabilize(c, st, t) ==
    Only({Only({IF x.err # "ok" \/ step = NoStep THEN x
                ELSE Stabilize(c, ApplyStep(c, x, step, t), t)
                : step \in {CreateStabilizationStep(c, x.conf, x.mem)}})
          : x \in {st}})

(* The loop of execute_once over the computed steps: apply, then stabilize.*)
RECURSIVE ExecuteSteps(_, _, _, _)
ExecuteSteps(c, st, steps, t) ==
    Only({IF steps = <<>> \/ x.err # "ok" THEN x
          ELSE ExecuteSteps(c, Stabilize(c, ApplyStep(c, x, Head(steps), t), t),
                            Tail(steps), t)
          : x \in {st}})

(* execute_once, lines 251-256: the invariants of the active states, by   *)
(* depth, once the steps are applied.                                      *)
RECURSIVE EvaluateAll(_, _)
EvaluateAll(r, conds) ==
    Only({IF conds = <<>> \/ x.err # "ok" THEN x
          ELSE EvaluateAll(Evaluated(x, Head(conds)), Tail(conds))
          : x \in {r}})

StateInvariants(c, st) ==
    Only({IF x.err # "ok" \/ c.contracts = {} THEN x
          ELSE Only({EvaluateAll(x, [k \in 1..Len(sorted) |->
                                        Cond(sorted[k], 0, "invariants", "-")])
                     : sorted \in {SetToSortedSeq(x.conf, DepthNameKey(c))}})
          : x \in {st}})

(* ------------------------------ macro step ----------------------------- *)
(* Variant: an event no transition matches gives no step (it is not        *)
(* consumed).                                                              *)
ComputeStepsKeepsUnmatched(c, inited, conf, q, t, passing) ==
    IF ~inited
    THEN [kind |-> "steps", steps |-> <<MicroStep(None, 0, <<c.root>>, <<>>)>>,
          event |-> None, selected |-> <<>>]
    ELSE LET event == SelectEvent(q, t)
             transitions == SelectTransitions(c, event, conf, passing)
             sorted == SortTransitions(c, transitions)
             ev == IF EventOf(c, sorted.order[1]) = None THEN None ELSE event
         IN IF transitions = <<>>
            THEN [kind |-> "none", steps |-> <<>>, event |-> event,
                  selected |-> <<>>]
            ELSE IF sorted.err # "ok"
            THEN [kind |-> sorted.err, steps |-> <<>>, event |-> event,
                  selected |-> transitions]
            ELSE [kind |-> "steps", steps |-> CreateSteps(c, conf, ev, sorted.order),
                  event |-> event, selected |-> transitions]

(* Variant: the empty step made for an unmatched event does not carry the  *)
(* event.                                                                  *)
ComputeStepsEmptyWithoutEvent(c, inited, conf, q, t, passing) ==
    IF ~inited
    THEN [kind |-> "steps", steps |-> <<MicroStep(None, 0, <<c.root>>, <<>>)>>,
          event |-> None, selected |-> <<>>]
    ELSE LET event == SelectEvent(q, t)
             transitions == SelectTransitions(c, event, conf, passing)
             sorted == SortTransitions(c, transitions)
             ev == IF EventOf(c, sorted.order[1]) = None THEN None ELSE event
         IN IF transitions = <<>>
            THEN IF event = None
                 THEN [kind |-> "none", steps |-> <<>>, event |-> event,
                       selected |-> <<>>]
                 ELSE [kind |-> "steps", steps |-> <<MicroStep(None, 0, <<>>, <<>>)>>,
                       event |-> event, selected |-> <<>>]
            ELSE IF sorted.err # "ok"
            THEN [kind |-> sorted.err, steps |-> <<>>, event |-> event,
                  selected |-> transitions]
            ELSE [kind |-> "steps", steps |-> CreateSteps(c, conf, ev, sorted.order),
                  event |-> event, selected |-> transitions]

(* Variant: without a due event there is no step, whatever the eventless   *)
(* transitions.                                                            *)
ComputeStepsOnlyOnEvent(c, inited, conf, q, t, passing) ==
    IF ~inited
    THEN [kind |-> "steps", steps |-> <<MicroStep(None, 0, <<c.root>>, <<>>)>>,
          event |-> None, selected |-> <<>>]
    ELSE LET event == SelectEvent(q, t)
             transitions == SelectTransitions(c, event, conf, passing)
             sorted == SortTransitions(c, transitions)
             ev == IF EventOf(c, sorted.order[1]) = None THEN None ELSE event
         IN IF event = None
            THEN [kind |-> "none", steps |-> <<>>, event |-> event,
                  selected |-> <<>>]
            ELSE IF transitions = <<>>
            THEN [kind |-> "steps", steps |-> <<MicroStep(event, 0, <<>>, <<>>)>>,
                  event |-> event, selected |-> <<>>]
            ELSE IF sorted.err # "ok"
            THEN [kind |-> sorted.err, steps |-> <<>>, event |-> event,
                  selected |-> transitions]
            ELSE [kind |-> "steps", steps |-> CreateSteps(c, conf, ev, sorted.order),
                  event |-> event, selected |-> transitions]

(* Variant: the steps of eventless transitions carry the due event, which  *)
(* is then consumed.                                                       *)
ComputeStepsKeepsEvent(c, inited, conf, q, t, passing) ==
    IF ~inited
    THEN [kind |-> "steps", steps |-> <<MicroStep(None, 0, <<c.root>>, <<>>)>>,
          event |-> None, selected |-> <<>>]
    ELSE LET event == SelectEvent(q, t)
             transitions == SelectTransitions(c, event, conf, passing)
             sorted == SortTransitions(c, transitions)
         IN IF transitions = <<>>
            THEN IF event = None
                 THEN [kind |-> "none", steps |-> <<>>, event |-> event,
                       selected |-> <<>>]
                 ELSE [kind |-> "steps", steps |-> <<MicroStep(event, 0, <<>>, <<>>)>>,
                       event |-> event, selected |-> <<>>]
            ELSE IF sorted.err # "ok"
            THEN [kind |-> sorted.err, steps |-> <<>>, event |-> event,
                  selected |-> transitions]
            ELSE [kind |-> "steps", steps |-> CreateSteps(c, conf, event, sorted.order),
                  event |-> event, selected |-> transitions]

(* Interpreter._compute_steps: [kind, steps, event, selected] with kind    *)
(* "none" (returns None), "steps", or the error _sort_transitions raises.  *)
ComputeSteps(c, inited, conf, q, t, passing) ==
    IF ~inited
    THEN [kind |-> "steps", steps |-> <<MicroStep(None, 0, <<c.root>>, <<>>)>>,
          event |-> None, selected |-> <<>>]
    ELSE LET event == SelectEvent(q, t)
             transitions == SelectTransitions(c, event, conf, passing)
             sorted == SortTransitions(c, transitions)
             ev == IF EventOf(c, sorted.order[1]) = None THEN None ELSE event
         IN IF transitions = <<>>
            THEN IF event = None
                 THEN [kind |-> "none", steps |-> <<>>, event |-> event,
                       selected |-> <<>>]
                 ELSE [kind |-> "steps", steps |-> <<MicroStep(event, 0, <<>>, <<>>)>>,
                       event |-> event, selected |-> <<>>]
            ELSE IF sorted.err # "ok"
            THEN [kind |-> sorted.err, steps |-> <<>>, event |-> event,
                  selected |-> transitions]
            ELSE [kind |-> "steps", steps |-> CreateSteps(c, conf, ev, sorted.order),
                  event |-> event, selected |-> transitions]

(* Interpreter.final                                                       *)
Final(inited, conf) == inited /\ conf = {}

(* ------------------------- property statecharts ------------------------ *)
(* A bound property statechart: an Interpreter of its own, its clock the   *)
(* time of the host.                                                       *)
NewProperty(k) ==
    [chart |-> k, initialized |-> FALSE, configuration |-> {}, memory |-> <<>>,
     event_queue |-> <<>>]

(* What of the interpreter and of the evaluator decides the contract      *)
(* checks and the deliveries of a call: _ignore_contract, the conditions   *)
(* the evaluator finds unsatisfied, and _bound.                            *)
Options(ignore, unsatisfied, listeners) ==
    [ignore_contract |-> ignore, unsatisfied |-> unsatisfied, bound |-> listeners]

(* The interpreter state the steps of a macro step are applied to.         *)
StepState(conf, mem, q, lf, props, options) ==
    [conf |-> conf, mem |-> mem, queue |-> q, err |-> "ok", fired |-> <<>>,
     entered |-> <<>>, exited |-> <<>>, applied |-> 0, left |-> lf,
     raised |-> <<>>, sent |-> <<>>, props |-> props, options |-> options,
     collected |-> <<>>, log |-> <<>>, failed |-> NoCond]

(* The guards of a property statechart are evaluated on the meta-event at  *)
(* the head of its queue.                                                  *)
PropertyPassing(c, q, t, states) ==
    {i \in Range(ConsideredTransitions(c, SelectEvent(q, t), states)) :
        \/ ~c.transitions[i].guard
        \/ (EventOf(c, i) # None /\ c.transitions[i].arg = Head(q).arg)}

(* Interpreter.execute (max_steps = -1) on a property statechart m at time *)
(* t: execute_once until it returns None (or raises).                      *)
RECURSIVE ExecuteProperty(_, _)
ExecuteProperty(m, t) ==
    LET c == PropertyCharts[m.chart]
        states == IF m.initialized THEN m.configuration ELSE {}
        q == IF m.initialized THEN m.event_queue ELSE <<>>
        Run(computed) ==
            IF computed.kind # "steps" THEN [err |-> "none"]
            ELSE ExecuteSteps(c, StepState(m.configuration, m.memory,
                                  IF computed.steps[1].event # None
                                  THEN ConsumeEvent(m.event_queue, t)
                                  ELSE m.event_queue, <<>>, <<>>,
                                  Options(FALSE, {}, <<>>)),
                              computed.steps, t)
        After(st) == [m EXCEPT !.initialized = TRUE, !.configuration = st.conf,
                               !.memory = st.mem, !.event_queue = st.queue]
    IN Only({IF st.err = "none" THEN m
             ELSE IF st.err # "ok" THEN After(st)
             ELSE ExecuteProperty(After(st), t)
             : st \in {Run(cs) : cs \in {ComputeSteps(c, m.initialized,
                          m.configuration, m.event_queue, t,
                          PropertyPassing(c, q, t, states))}}})

(* Interpreter._notify_properties: the meta-event is queued on every bound *)
(* property statechart, then each one is executed.                         *)
NotifyProperties(props, meta, t) ==
    [k \in 1..Len(props) |->
        ExecuteProperty(
            [props[k] EXCEPT !.event_queue =
                InsertEntry(@, [time |-> t, name |-> meta.name, internal |-> FALSE,
                                arg |-> meta.arg])], t)]

(* Variant: the properties are checked after a macro step only.            *)
CheckPropertiesAfterStep(props, macro_step) ==
    /\ macro_step
    /\ \E k \in 1..Len(props) : Final(props[k].initialized, props[k].configuration)

(* Interpreter._check_properties: TRUE when PropertyStatechartError is     *)
(* raised; macro_step tells whether a macro step was made.                 *)
CheckProperties(props, macro_step) ==
    \E k \in 1..Len(props) : Final(props[k].initialized, props[k].configuration)

(* What the environment saw of the latest call.                            *)
Idle(op) ==
    [op |-> op, result |-> "-", initial |-> FALSE, wasFinal |-> FALSE,
     preConf |-> {}, preMem |-> <<>>, preQueue |-> <<>>, event |-> None,
     passing |-> {}, selected |-> <<>>, fired |-> <<>>, entered |-> <<>>,
     exited |-> <<>>, applied |-> 0, consumed |-> None, popped |-> <<>>,
     raised |-> <<>>, sent |-> <<>>, preArrival |-> <<>>, checked |-> FALSE,
     carried |-> <<>>, preProps |-> <<>>, max_steps |-> 0, returned |-> <<>>,
     calls |-> 0, log |-> <<>>, failed |-> NoCond, unsatisfied |-> {},
     reference |-> [configuration |-> {}, applied |-> 0]]

(* The entries of q that q2 lacks (q2 is q with at most one entry popped),  *)
(* as a list; and a list without the first occurrence of each of them.     *)
Popped(q, q2) ==
    IF Len(q2) = Len(q) THEN <<>>
    ELSE LET diff == {i \in 1..Len(q2) : q[i] # q2[i]}
         IN <<q[IF diff = {} THEN Len(q)
                ELSE CHOOSE i \in diff : \A j \in diff : i <= j]>>
Without(seq, xs) ==
    IF xs = <<>> THEN seq
    ELSE LET i == CHOOSE k \in 1..Len(seq) :
                      seq[k] = xs[1] /\ \A j \in 1..(k - 1) : seq[j] # xs[1]
         IN [k \in 1..(Len(seq) - 1) |-> IF k < i THEN seq[k] ELSE seq[k + 1]]

(* The considered transitions that carry a guard: each evaluation of such  *)
(* a guard may pass or fail.                                               *)
Guarded(c, ev, conf) ==
    {i \in Range(ConsideredTransitions(c, ev, conf)) : c.transitions[i].guard}
Unguarded(c, ev, conf) ==
    {i \in Range(ConsideredTransitions(c, ev, conf)) : ~c.transitions[i].guard}

(* The interpreter, as the operations see it.                              *)
Current ==
    [chart |-> chart, initialized |-> initialized,
     configuration |-> configuration, memory |-> memory,
     event_queue |-> event_queue, clock |-> clock, time |-> time, left |-> left,
     arrival |-> arrival, bound_properties |-> bound_properties,
     ignore_contract |-> ignore_contract, bound |-> bound, unsatisfied |-> {}]

(* The guarded transitions a call of execute_once on s evaluates; the      *)
(* evaluator makes any subset of them pass.                                *)
GuardChoices(s) ==
    SUBSET Guarded(Charts[s.chart],
                   IF s.initialized THEN SelectEvent(s.event_queue, s.clock)
                   ELSE None,
                   IF s.initialized THEN s.configuration ELSE {})

(* execute_once, lines 250-262: the steps were applied and left st; the    *)
(* properties are notified of the end of the step and checked.  The        *)
(* result is the interpreter the call leaves, and in last what it did.     *)
OnceEnded(s, passing, computed, popped, st, props) ==
    [chart |-> s.chart, initialized |-> TRUE, configuration |-> st.conf,
     memory |-> st.mem, event_queue |-> st.queue, clock |-> s.clock,
     time |-> s.clock, left |-> st.left,
     arrival |-> Without(s.arrival, popped) \o st.raised,
     bound_properties |-> props,
     ignore_contract |-> s.ignore_contract, bound |-> s.bound, unsatisfied |-> {},
     last |-> [Idle("execute_once") EXCEPT
                 !.log = st.log, !.failed = st.failed,
                 !.unsatisfied = s.unsatisfied,
                 !.result = IF /\ computed.kind \in {"none", "steps"}
                               /\ st.err = "ok"
                               /\ CheckProperties(props, computed.kind = "steps")
                            THEN "PropertyStatechartError"
                            ELSE IF computed.kind = "steps"
                            THEN (IF st.err = "ok" THEN "step" ELSE st.err)
                            ELSE computed.kind,
                 !.initial = ~s.initialized,
                 !.wasFinal = Final(s.initialized, s.configuration),
                 !.preConf = s.configuration, !.preMem = s.memory,
                 !.preQueue = s.event_queue,
                 !.event = computed.event, !.passing = passing,
                 !.selected = computed.selected, !.fired = st.fired,
                 !.entered = st.entered, !.exited = st.exited,
                 !.applied = st.applied,
                 !.consumed = IF popped # <<>> THEN computed.steps[1].event ELSE None,
                 !.popped = popped, !.raised = st.raised, !.sent = st.sent,
                 !.preArrival = s.arrival,
                 !.checked = (computed.kind \in {"none", "steps"} /\ st.err = "ok"),
                 !.carried = IF /\ computed.kind \in {"none", "steps"}
                                /\ st.err = "ok"
                                /\ CheckProperties(props, computed.kind = "steps")
                             THEN SetToSortedSeq(st.conf, DepthNameKey(Charts[s.chart]))
                             ELSE <<>>,
                 !.preProps = s.bound_properties]]

(* execute_once, lines 244-260: the steps are applied to st0, then the     *)
(* properties are notified that the step ended.                            *)
OnceApplied(s, passing, computed, popped, st) ==
    Only({OnceEnded(s, passing, computed, popped, x, x.props) :
             x \in {IF computed.kind = "steps" /\ st.err = "ok"
                    THEN Notified(st, Meta("step ended", None), s.clock)
                    ELSE st}})

(* execute_once, lines 232-242: the properties are notified that the step  *)
(* started and the event of the first step, if any, is consumed.           *)
OnceStarted(s, passing, computed, st0) ==
    Only({OnceApplied(s, passing, computed, Popped(s.event_queue, st0.queue), st) :
             st \in {IF computed.kind = "steps"
                     THEN StateInvariants(Charts[s.chart],
                              ExecuteSteps(Charts[s.chart], st0, computed.steps,
                                           s.clock))
                     ELSE st0}})

(* Variant: the properties are told that a step started before the steps  *)
(* are computed.                                                           *)
BegunBeforeComputed(st, computed, consumes, t) ==
    NotifiedAll(st, IF ~consumes THEN <<Meta("step started", None)>>
                    ELSE <<Meta("step started", None),
                           Meta("event consumed", computed.steps[1].event)>>, t)

(* execute_once, lines 233-241: the notifications of a call that makes a  *)
(* step.                                                                   *)
Begun(st, computed, consumes, t) ==
    NotifiedAll(st, CASE computed.kind # "steps" -> <<>>
                      [] ~consumes -> <<Meta("step started", None)>>
                      [] OTHER -> <<Meta("step started", None),
                                    Meta("event consumed", computed.steps[1].event)>>, t)

OnceComputed(s, passing, computed, consumes) ==
    Only({OnceStarted(s, passing, computed, st0) :
             st0 \in {Begun(StepState(s.configuration, s.memory,
                                IF consumes THEN ConsumeEvent(s.event_queue, s.clock)
                                ELSE s.event_queue,
                                s.left, s.bound_properties,
                                Options(s.ignore_contract, s.unsatisfied, s.bound)),
                            computed, consumes, s.clock)}})

OncePassing(s, passing, computed) ==
    OnceComputed(s, passing, computed,
                 computed.kind = "steps" /\ computed.steps[1].event # None)

(* Interpreter.execute_once on the interpreter s when the guards of pass   *)
(* are the ones that hold.                                                 *)
Once(s, pass) ==
    LET passing ==
            pass \cup Unguarded(Charts[s.chart],
                                IF s.initialized
                                THEN SelectEvent(s.event_queue, s.clock) ELSE None,
                                IF s.initialized THEN s.configuration ELSE {})
    IN Only({OncePassing(s, passing, computed) :
                computed \in {ComputeSteps(Charts[s.chart], s.initialized,
                                           s.configuration, s.event_queue, s.clock,
                                           passing)}})

(* The conditions of the contract the evaluator finds unsatisfied during a *)
(* call: the call stops at the first one it evaluates, so none or one.     *)
ContractChoices(s) ==
    {{}} \cup {{x} : x \in Charts[s.chart].contracts}

(* The configuration the same call leaves, and the number of micro steps   *)
(* it applies, on an interpreter that neither ignores the contract nor has *)
(* property statecharts, when every condition of the contract holds.       *)
Referred(s) == s.ignore_contract \/ s.bound_properties # <<>>
Plain(s) ==
    [s EXCEPT !.ignore_contract = FALSE, !.bound_properties = <<>>, !.unsatisfied = {}]
Reference(s, o) ==
    IF ~Referred(s) THEN [configuration |-> {}, applied |-> 0]
    ELSE [configuration |-> o.configuration, applied |-> o.last.applied]

(* The interpreter becomes what an operation left, o.                      *)
Becomes(o) ==
    /\ time' = o.time
    /\ initialized' = o.initialized
    /\ configuration' = o.configuration
    /\ memory' = o.memory
    /\ event_queue' = o.event_queue
    /\ left' = o.left
    /\ arrival' = o.arrival
    /\ bound_properties' = o.bound_properties
    /\ last' = o.last
    /\ UNCHANGED <<chart, clock, ignore_contract, bound>>

(* Interpreter.execute_once: one macro step, or None, or an exception      *)
(* (last.result).  last records what the call did.                         *)
ExecuteOnce ==
    \E s \in {Current} : \E pass \in GuardChoices(s) :
        \E unsatisfied \in ContractChoices(s) :
            \E both \in {[k \in {"call", "reference"} |->
                             Once(IF k = "call" THEN [s EXCEPT !.unsatisfied = unsatisfied]
                                  ELSE IF Referred(s) THEN Plain(s)
                                  ELSE [s EXCEPT !.unsatisfied = unsatisfied], pass)]} :
                \E o \in {[both["call"] EXCEPT
                              !.last.reference = Reference(s, both["reference"])]} :
                    Becomes(o)

(* What execute keeps of a macro step execute_once returned: the step's    *)
(* time and event, with the configuration the step left.                   *)
MacroStepOf(o) ==
    [time |-> o.time, event |-> o.last.consumed, configuration |-> o.configuration]

(* What execute has of a call of execute_once: the interpreter it left and *)
(* the macro step, None or exception that came out of it.                  *)
Outcome(o) ==
    [o EXCEPT !.last = [Idle("execute_once") EXCEPT
                           !.result = o.last.result,
                           !.initial = o.last.initial,
                           !.consumed = o.last.consumed]]

(* Interpreter.execute from the interpreter s, returned_steps and i being  *)
(* what the loop has so far: every way the loop can end, as the            *)
(* interpreter it leaves, the list it returns, the exception it lets       *)
(* through ("-" for none) and the number of calls of execute_once.         *)
RECURSIVE ExecuteFrom(_, _, _, _)
(* Variant: the macro step of the initial step is not kept in the list.    *)
ExecuteAfterSkipsInitial(o, max_steps, returned_steps, i) ==
    LET kept == IF o.last.initial THEN returned_steps
                ELSE Append(returned_steps, MacroStepOf(o))
    IN IF o.last.result = "none"
       THEN {[after |-> o, returned |-> returned_steps, raised |-> "-",
              calls |-> i + 1]}
       ELSE IF o.last.result # "step"
       THEN {[after |-> o, returned |-> returned_steps, raised |-> o.last.result,
              calls |-> i + 1]}
       ELSE IF 0 < max_steps /\ max_steps = i + 1
       THEN {[after |-> o, returned |-> kept, raised |-> "-", calls |-> i + 1]}
       ELSE ExecuteFrom(o, max_steps, kept, i + 1)

(* Variant: i is compared with max_steps before it is incremented.         *)
ExecuteAfterLateBreak(o, max_steps, returned_steps, i) ==
    IF o.last.result = "none"
    THEN {[after |-> o, returned |-> returned_steps, raised |-> "-", calls |-> i + 1]}
    ELSE IF o.last.result # "step"
    THEN {[after |-> o, returned |-> returned_steps, raised |-> o.last.result,
           calls |-> i + 1]}
    ELSE IF 0 < max_steps /\ max_steps = i
    THEN {[after |-> o, returned |-> Append(returned_steps, MacroStepOf(o)),
           raised |-> "-", calls |-> i + 1]}
    ELSE ExecuteFrom(o, max_steps, Append(returned_steps, MacroStepOf(o)), i + 1)

(* The loop after a call of execute_once left o.                           *)
ExecuteAfter(o, max_steps, returned_steps, i) ==
    IF o.last.result = "none"
    THEN {[after |-> o, returned |-> returned_steps, raised |-> "-", calls |-> i + 1]}
    ELSE IF o.last.result # "step"
    THEN {[after |-> o, returned |-> returned_steps, raised |-> o.last.result,
           calls |-> i + 1]}
    ELSE IF 0 < max_steps /\ max_steps = i + 1
    THEN {[after |-> o, returned |-> Append(returned_steps, MacroStepOf(o)),
           raised |-> "-", calls |-> i + 1]}
    ELSE ExecuteFrom(o, max_steps, Append(returned_steps, MacroStepOf(o)), i + 1)

ExecuteFrom(s, max_steps, returned_steps, i) ==
    UNION {ExecuteAfter(o, max_steps, returned_steps, i) :
              o \in {Outcome(Once(s, pass)) : pass \in GuardChoices(s)}}

(* Interpreter.execute(max_steps).                                         *)
Execute(max_steps) ==
    \E s \in {Current} : \E r \in ExecuteFrom(s, max_steps, <<>>, 0) :
        Becomes([r.after EXCEPT
                    !.last = [Idle("execute") EXCEPT
                                 !.result = IF r.raised = "-" THEN "list" ELSE r.raised,
                                 !.initial = ~s.initialized,
                                 !.wasFinal = Final(s.initialized, s.configuration),
                                 !.preConf = s.configuration, !.preMem = s.memory,
                                 !.preQueue = s.event_queue,
                                 !.preArrival = s.arrival,
                                 !.preProps = s.bound_properties,
                                 !.max_steps = max_steps,
                                 !.returned = r.returned,
                                 !.calls = r.calls]])

(* Interpreter.queue with one external event, plain (delay 0) or delayed:  *)
(* pushed at the clock's time.                                             *)
Queue(name, delay) ==
    /\ Len(event_queue) < MaxQueue
    /\ event_queue' = Push(event_queue, clock, name, delay, FALSE)
    /\ arrival' = Append(arrival, Entry(clock, name, delay, FALSE))
    /\ last' = Idle("queue")
    /\ UNCHANGED <<chart, initialized, configuration, memory, clock, time, left,
                   bound_properties, ignore_contract, bound>>

(* The clock advances between two calls.                                   *)
Tick ==
    /\ clock < MaxTime
    /\ clock' = clock + 1
    /\ last' = Idle("tick")
    /\ UNCHANGED <<chart, initialized, configuration, memory, event_queue, time,
                   left, arrival, bound_properties, ignore_contract, bound>>

(* Interpreter.__init__ for the chart numbered k with ignore_contract set  *)
(* or not, then bind_property_statechart for each of the property          *)
(* statecharts props and bind for each of the listeners.                   *)
ConstructedWith(k, props, ignore, listeners) ==
    /\ chart = k
    /\ ignore_contract = ignore
    /\ bound = listeners
    /\ initialized = FALSE
    /\ configuration = {}
    /\ memory = <<>>
    /\ event_queue = <<>>
    /\ clock = 0
    /\ time = 0
    /\ last = Idle("new")
    /\ left = <<>>
    /\ arrival = <<>>
    /\ bound_properties = [i \in 1..Len(props) |-> NewProperty(props[i])]

Constructed(k, props) == ConstructedWith(k, props, FALSE, <<>>)

(* The charts whose history states, if any, are not the target of a        *)
(* transition.                                                             *)
Init == \E k \in {1, 2, 3, 4, 6, 7} : Constructed(k, <<>>)

(* The chart with transitions to its history states.                       *)
InitHist == \E k \in {5} : Constructed(k, <<>>)

(* The interpreter of the first chart with one or two property statecharts *)
(* bound to it.                                                            *)
InitProp == \E props \in {<<1>>, <<2>>, <<1, 2>>} : Constructed(1, props)

Next ==
    \/ ExecuteOnce
    \/ \E name \in ExternalEvents, delay \in Delays : Queue(name, delay)
    \/ Tick

Spec == Init /\ [][Next]_vars

SpecHist == InitHist /\ [][Next]_vars

(* With property statecharts bound, the events queued are not delayed and  *)
(* the clock stays where it is.                                            *)
NextProp ==
    \/ ExecuteOnce
    \/ \E name \in ExternalEvents : Queue(name, 0)

SpecProp == InitProp /\ [][NextProp]_vars

(* The light switch and the first chart, run with execute as well.         *)
InitExec == \E k \in {1, 8} : Constructed(k, <<>>)

NextExec ==
    \/ ExecuteOnce
    \/ \E max_steps \in MaxStepsValues : Execute(max_steps)
    \/ \E name \in ExecuteEvents : Queue(name, 0)

SpecExec == InitExec /\ [][NextExec]_vars

(* The chart with actions and a contract, its interpreter built with       *)
(* ignore_contract set or not and two listeners bound; the environment     *)
(* queues e and the clock stays where it is.                               *)
Listeners == <<1, 2>>
InitAct == \E ignore \in BOOLEAN : ConstructedWith(9, <<>>, ignore, Listeners)

NextAct ==
    \/ ExecuteOnce
    \/ \E name \in ActEvents : Queue(name, 0)

SpecAct == InitAct /\ [][NextAct]_vars

(* ======================================================================= *)
(* Properties                                                              *)
(* ======================================================================= *)
TheChart == Charts[chart]

Called == last.op = "execute_once"
(* execute_once returned (a macro step or None) instead of raising.        *)
Returned == Called /\ last.result \in {"step", "none"}
IsEventless(i) == EventOf(TheChart, i) = None
SelectedSet == Range(last.selected)
SelectedFrom(s) == {i \in SelectedSet : SourceOf(TheChart, i) = s}
StrictAncestors(s) == Range(AncestorsFor(TheChart, s))
(* A source is shadowed when a transition was selected from a state        *)
(* strictly below it.                                                      *)
Shadowed(s) == \E i \in SelectedSet : s \in StrictAncestors(SourceOf(TheChart, i))
HighestPriority(S) ==
    {i \in S : \A j \in S : PriorityOf(TheChart, j) <= PriorityOf(TheChart, i)}

C2_InnerFirst ==
    Called =>
        \A i \in SelectedSet, j \in SelectedSet :
            (~IsEventless(i) /\ EventOf(TheChart, j) = EventOf(TheChart, i))
            => SourceOf(TheChart, j) \notin StrictAncestors(SourceOf(TheChart, i))

(* A transition is selected from a state while an ancestor has a passing   *)
(* transition of a higher priority on the same event.                      *)
C2_Witness ==
    /\ Called /\ last.result = "step"
    /\ \E i \in SelectedSet, j \in last.passing :
          /\ EventOf(TheChart, i) = last.event /\ EventOf(TheChart, j) = last.event
          /\ SourceOf(TheChart, j) \in StrictAncestors(SourceOf(TheChart, i))
          /\ PriorityOf(TheChart, j) > PriorityOf(TheChart, i)

(* The trigger group the selection settles on: the eventless transitions   *)
(* when one of them is enabled, else the ones triggered by the due event.  *)
InProcessedGroup(i) == IsEventless(i) = (\E j \in last.passing : IsEventless(j))

SelectedPairs ==
    {pr \in (1..Len(last.selected)) \X (1..Len(last.selected)) : pr[1] < pr[2]}
(* The order in which the pairs are examined.                              *)
PairBefore(p1, p2) == p1[1] < p2[1] \/ (p1[1] = p2[1] /\ p1[2] < p2[2])
PairLca(pr) ==
    LeastCommonAncestor(TheChart, SourceOf(TheChart, last.selected[pr[1]]),
                        SourceOf(TheChart, last.selected[pr[2]]))
OrthogonalLca(pr) == PairLca(pr) # None /\ KindOf(TheChart, PairLca(pr)) = "orthogonal"
(* The region of a state under lca: the child of lca the state lies in.    *)
RegionOf(s, lca) ==
    CHOOSE x \in {s} \cup StrictAncestors(s) : ParentFor(TheChart, x) = lca
StaysInRegion(i, lca) ==
    \/ TargetOf(TheChart, i) = None
    \/ RegionOf(SourceOf(TheChart, i), lca)
           \in {TargetOf(TheChart, i)} \cup StrictAncestors(TargetOf(TheChart, i))
NonDeterministicPair(pr) == ~OrthogonalLca(pr)
ConflictingPair(pr) ==
    /\ OrthogonalLca(pr)
    /\ \/ ~StaysInRegion(last.selected[pr[1]], PairLca(pr))
       \/ ~StaysInRegion(last.selected[pr[2]], PairLca(pr))
FirstAmong(P(_)) ==
    CHOOSE pr \in SelectedPairs :
        P(pr) /\ \A q \in SelectedPairs : P(q) => (q = pr \/ PairBefore(pr, q))

(* C4, as stated: whenever two selected transitions have sources whose     *)
(* least common ancestor is not Orthogonal, execute_once raises            *)
(* NonDeterminism and fires no transition.                                 *)
C4_NonDeterminismAlways ==
    (Called /\ \E pr \in SelectedPairs : NonDeterministicPair(pr))
    => (last.result = "NonDeterminism" /\ last.fired = <<>>)

(* C4, amended: whenever two selected transitions have sources whose least *)
(* common ancestor is not Orthogonal, execute_once raises an error and     *)
(* fires no transition; the error is NonDeterminism unless a pair examined *)
(* earlier has an Orthogonal least common ancestor and a target outside    *)
(* its region, and then it is ConflictingTransitions.                      *)
C4_NonDeterminismDetection ==
    (Called /\ \E pr \in SelectedPairs : NonDeterministicPair(pr))
    => /\ last.fired = <<>>
       /\ last.result =
              IF \E q \in SelectedPairs :
                     ConflictingPair(q) /\ PairBefore(q, FirstAmong(NonDeterministicPair))
              THEN "ConflictingTransitions" ELSE "NonDeterminism"

(* Scenario S4: two passing transitions of one priority from the same      *)
(* source under a Compound parent; NonDeterminism is raised.               *)
C4_Witness ==
    /\ Called /\ last.result = "NonDeterminism"
    /\ Len(last.selected) = 2
    /\ SourceOf(TheChart, last.selected[1]) = SourceOf(TheChart, last.selected[2])
    /\ KindOf(TheChart, ParentFor(TheChart, SourceOf(TheChart, last.selected[1])))
           = "compound"

(* C5, as stated: whenever two selected transitions have an Orthogonal     *)
(* least common ancestor and one of them targets a state outside its own   *)
(* region, execute_once raises ConflictingTransitions; when the targets of *)
(* all such pairs stay inside their regions, it does not.                  *)
C5_ConflictAlways ==
    Called =>
        /\ (\E pr \in SelectedPairs : ConflictingPair(pr))
               => last.result = "ConflictingTransitions"
        /\ (\A pr \in SelectedPairs : ~ConflictingPair(pr))
               => last.result # "ConflictingTransitions"

(* C5, amended: whenever two selected transitions have an Orthogonal least *)
(* common ancestor and one of them targets a state outside its own region, *)
(* execute_once raises an error: ConflictingTransitions, unless a pair     *)
(* examined earlier has a non-Orthogonal least common ancestor, and then   *)
(* NonDeterminism. When no such pair leaves its region,                    *)
(* ConflictingTransitions is not raised.                                   *)
C5_ConflictDetection ==
    Called =>
        /\ (\E pr \in SelectedPairs : ConflictingPair(pr))
               => last.result =
                      IF \E q \in SelectedPairs :
                             /\ NonDeterministicPair(q)
                             /\ PairBefore(q, FirstAmong(ConflictingPair))
                      THEN "NonDeterminism" ELSE "ConflictingTransitions"
        /\ (\A pr \in SelectedPairs : ~ConflictingPair(pr))
               => last.result # "ConflictingTransitions"

(* Two transitions from different regions of an Orthogonal state are       *)
(* selected, one of them targets the other region, and                     *)
(* ConflictingTransitions is raised.                                       *)
C5_Witness ==
    /\ Called /\ last.result = "ConflictingTransitions"
    /\ Len(last.selected) = 2
    /\ ConflictingPair(<<1, 2>>)
    /\ SourceOf(TheChart, last.selected[1]) # SourceOf(TheChart, last.selected[2])

(* C6. Parent closure: each time execute_once has returned, every active   *)
(* state other than the root has its parent in the configuration.          *)
C6_ParentClosure ==
    Returned =>
        \A s \in configuration \ {TheChart.root} :
            ParentFor(TheChart, s) \in configuration

(* C7. Compound exclusivity: each time execute_once has returned, every    *)
(* active Compound state has exactly one active child.                     *)
C7_CompoundExclusivity ==
    Returned =>
        \A s \in configuration :
            KindOf(TheChart, s) = "compound"
            => Cardinality(Range(ChildrenFor(TheChart, s)) \cap configuration) = 1

(* C8. Orthogonal completeness: each time execute_once has returned, every *)
(* active Orthogonal state has all of its children active.                 *)
C8_OrthogonalCompleteness ==
    Returned =>
        \A s \in configuration :
            KindOf(TheChart, s) = "orthogonal"
            => Range(ChildrenFor(TheChart, s)) \subseteq configuration

RootFinals ==
    {s \in TheChart.states :
        KindOf(TheChart, s) = "final" /\ ParentFor(TheChart, s) = TheChart.root}

(* C9. Termination by a root-level Final: whenever a macro step enters a   *)
(* Final child of the root, the configuration is empty and final is true   *)
(* when execute_once returns (final being: initialized and empty).         *)
C9_TerminationByRootFinal ==
    (Returned /\ Range(last.entered) \cap RootFinals # {})
    => (configuration = {} /\ Final(initialized, configuration))

(* C10, as stated: once the interpreter is final, every further call to    *)
(* execute_once returns absent, whatever is in the queue.                  *)
C10_FinalReturnsAbsent ==
    (Called /\ last.wasFinal) => last.result = "none"

(* C10, amended: once the interpreter is final it stays final: a further   *)
(* call to execute_once fires no transition and leaves the configuration   *)
(* empty; it returns absent exactly when no queued event is due, and       *)
(* otherwise returns a macro step of one empty micro step that only pops   *)
(* the due event.                                                          *)
C10_FinalStaysFinal ==
    (Called /\ last.wasFinal)
    => /\ Final(initialized, configuration)
       /\ last.fired = <<>> /\ last.entered = <<>> /\ last.exited = <<>>
       /\ memory = last.preMem
       /\ (last.result = "none") = (last.event = None)
       /\ last.event = None => event_queue = last.preQueue
       /\ last.event # None =>
              /\ last.result = "step" /\ last.applied = 1
              /\ last.consumed = last.event
              /\ event_queue = Tail(last.preQueue)

(* execute_once is called on a final interpreter while an event is due.    *)
C10_Witness ==
    /\ Called /\ last.wasFinal /\ last.event # None
    /\ Len(last.preQueue) = 2

(* ---- history ----------------------------------------------------------- *)
HistoryStates(kind) == {h \in TheChart.states : KindOf(TheChart, h) = kind}
FiredTargets == {TargetOf(TheChart, last.fired[k]) : k \in 1..Len(last.fired)}
ChildrenOf(s) == Range(ChildrenFor(TheChart, s))
DescendantsOfState(s) == Range(DescendantsFor(TheChart, s))
(* A transition targeting history state h fired in the latest call, which  *)
(* returned, and the parent of h had been exited before.                   *)
ReenteredThrough(h) ==
    /\ Called /\ last.result = "step"
    /\ h \in FiredTargets
    /\ ParentFor(TheChart, h) \in DOMAIN left

(* C11. Shallow history: when a Compound that was exited earlier is        *)
(* re-entered through a transition targeting its ShallowHistory child H,    *)
(* its active direct child on return is exactly the direct child that was  *)
(* active when it was most recently exited, and H is not in the            *)
(* configuration.                                                          *)
C11_ShallowHistory ==
    \A h \in HistoryStates("shallow") :
        ReenteredThrough(h) =>
            /\ configuration \cap ChildrenOf(ParentFor(TheChart, h))
                   = left[ParentFor(TheChart, h)] \cap ChildrenOf(ParentFor(TheChart, h))
            /\ Cardinality(configuration \cap ChildrenOf(ParentFor(TheChart, h))) = 1
            /\ h \notin configuration

(* Scenario S5: the Compound is re-entered through H after it was exited   *)
(* with a child other than its initial one, and that child is active.      *)
C11_Witness ==
    \E h \in HistoryStates("shallow") :
        /\ ReenteredThrough(h)
        /\ TheChart.initial[ParentFor(TheChart, h)] \notin left[ParentFor(TheChart, h)]
        /\ TheChart.initial[ParentFor(TheChart, h)] \notin configuration
        /\ configuration \cap ChildrenOf(ParentFor(TheChart, h)) # {}

DepthOrdered(seq) ==
    \A i \in 1..Len(seq), j \in 1..Len(seq) :
        i < j => DepthFor(TheChart, seq[i]) <= DepthFor(TheChart, seq[j])

(* C12. Deep history: once a Compound with a DeepHistory child H has been  *)
(* exited, the memory of H is the set of its descendants that were active  *)
(* when the exiting micro step began; and when it is re-entered through H, *)
(* exactly those descendants are active on return, H is not, and they were *)
(* entered by increasing depth.                                            *)
C12_DeepHistory ==
    \A h \in HistoryStates("deep") :
        /\ ParentFor(TheChart, h) \in DOMAIN left
               => /\ h \in DOMAIN memory
                  /\ memory[h] = left[ParentFor(TheChart, h)]
        /\ ReenteredThrough(h)
               => /\ configuration \cap DescendantsOfState(ParentFor(TheChart, h))
                         = left[ParentFor(TheChart, h)]
                  /\ DepthOrdered(SelectSeq(last.entered,
                         LAMBDA s : s \in left[ParentFor(TheChart, h)]))

(* The Compound is re-entered through H after it was exited with two       *)
(* nested descendants active, and both are active again.                   *)
C12_Witness ==
    \E h \in HistoryStates("deep") :
        /\ ReenteredThrough(h)
        /\ Cardinality(left[ParentFor(TheChart, h)]) = 2
        /\ left[ParentFor(TheChart, h)] \subseteq configuration
        /\ \E s \in left[ParentFor(TheChart, h)] :
               /\ ParentFor(TheChart, s) # ParentFor(TheChart, h)
               /\ s # TheChart.initial[ParentFor(TheChart, s)]

(* ---- event order ------------------------------------------------------- *)
Count(seq, x) == Cardinality({i \in 1..Len(seq) : seq[i] = x})
FirstIndex(seq, x) == CHOOSE i \in 1..Len(seq) : seq[i] = x /\ \A j \in 1..(i - 1) : seq[j] # x
(* The internal entries of a queue that carry the sent event x (the charts *)
(* send events that are not delayed: scheduled at the time t of the step). *)
CountRaised(q, x, t) ==
    Cardinality({i \in 1..Len(q) :
                    q[i].internal /\ q[i].name = x.name /\ q[i].time = t + x.delay})
(* The call popped an event that queue had been given (not a raised one).  *)
PoppedExternal == Called /\ last.popped # <<>> /\ ~last.popped[1].internal
(* The events inserted before the popped one and still waiting when the    *)
(* call began, in the order of their insertion; and those inserted after.  *)
InsertedBeforePopped ==
    SubSeq(last.preArrival, 1, FirstIndex(last.preArrival, last.popped[1]) - 1)
InsertedAfterPopped ==
    SubSeq(last.preArrival, FirstIndex(last.preArrival, last.popped[1]) + 1,
           Len(last.preArrival))
ExternalAt(x, t) == ~x.internal /\ x.time = t

(* C13. Event FIFO: of two external events scheduled for the same time (as *)
(* two non-delayed events passed to queue at the same clock time are), the *)
(* one queued first is consumed by an earlier macro step: a macro step     *)
(* never consumes such an event while one queued before it for the same    *)
(* time is still waiting, whatever was raised or fired in between.         *)
C13_EventFifo ==
    PoppedExternal =>
        \A k \in 1..Len(InsertedBeforePopped) :
            ~ExternalAt(InsertedBeforePopped[k], last.popped[1].time)

(* An external event is consumed while another one, queued after it at the *)
(* same time, and a raised internal event are waiting.                     *)
C13_Witness ==
    /\ PoppedExternal /\ last.result = "step"
    /\ \E k \in 1..Len(InsertedAfterPopped) :
           /\ ExternalAt(InsertedAfterPopped[k], last.popped[1].time)
           /\ InsertedAfterPopped[k].name # last.popped[1].name
    /\ \E k \in 1..Len(last.preArrival) : last.preArrival[k].internal

(* C14. Internal precedence: the (non-delayed) internal events raised      *)
(* during a macro step are all in the queue when it ends (the step popped  *)
(* only the event it began with), and no later macro step consumes an      *)
(* external event queued after a raised internal event that still waits.   *)
C14_InternalPrecedence ==
    Called =>
        /\ \A x \in Range(last.sent) :
               CountRaised(event_queue, x, time) =
                   CountRaised(last.preQueue, x, time) - CountRaised(last.popped, x, time)
                       + Count(last.sent, x)
        /\ PoppedExternal =>
               \A k \in 1..Len(InsertedBeforePopped) : ~InsertedBeforePopped[k].internal

(* A raised internal event is consumed while an external event, queued     *)
(* after it was raised, is due as well.                                    *)
C14_Witness ==
    /\ Called /\ last.result = "step" /\ last.popped # <<>>
    /\ last.popped[1].internal
    /\ \E k \in 1..Len(InsertedAfterPopped) :
           ~InsertedAfterPopped[k].internal /\ InsertedAfterPopped[k].time <= time

(* ---- property statecharts ---------------------------------------------- *)
FinalProperties(props) ==
    {k \in 1..Len(props) : Final(props[k].initialized, props[k].configuration)}

(* C15. Property violation: whenever a bound property statechart is in a   *)
(* final configuration when execute_once checks the properties (after a    *)
(* macro step, or when no step was computed), execute_once raises          *)
(* PropertyStatechartError carrying the host's current configuration; it   *)
(* never returns while a bound property statechart is final.               *)
C15_PropertyViolation ==
    Called =>
        /\ (last.checked /\ FinalProperties(bound_properties) # {})
               => /\ last.result = "PropertyStatechartError"
                  /\ Range(last.carried) = configuration
                  /\ Len(last.carried) = Cardinality(configuration)
        /\ Returned => FinalProperties(bound_properties) = {}

(* A macro step during which a property statechart, not final before,      *)
(* reached its final state, with a second one bound that did not.          *)
C15_Witness ==
    /\ Called /\ last.result = "PropertyStatechartError"
    /\ last.fired # <<>> /\ configuration # {}
    /\ FinalProperties(last.preProps) = {}
    /\ Cardinality(FinalProperties(bound_properties)) = 1
    /\ Len(bound_properties) = 2

(* ---- delayed events ---------------------------------------------------- *)
EventlessEnabled == \E i \in last.passing : IsEventless(i)
(* The earliest queued event when the call began, and whether it was due   *)
(* at the time the call took from the clock.                               *)
EarliestQueued == Head(last.preQueue)
EarliestDue == EarliestQueued.time <= time

RECURSIVE DescentFrom(_)
DescentFrom(S) ==
    LET histories == {h \in S : KindOf(TheChart, h) \in {"shallow", "deep"}}
        compounds == {x \in S : /\ KindOf(TheChart, x) = "compound"
                                /\ TheChart.initial[x] # None
                                /\ ChildrenOf(x) \cap S = {}}
        orthogonals == {x \in S : KindOf(TheChart, x) = "orthogonal"}
        next == IF histories # {}
                THEN (S \ histories) \cup {TheChart.memory[h] : h \in histories}
                ELSE S \cup {TheChart.initial[x] : x \in compounds}
                       \cup UNION {ChildrenOf(x) : x \in orthogonals}
    IN IF next = S THEN S ELSE DescentFrom(next)
Descent == DescentFrom({TheChart.root})
FirstCallReturned == Called /\ last.initial /\ Returned

(* C17, as stated: when the first execute_once on a fresh interpreter      *)
(* returns, the configuration is the stabilized descent from the root.     *)
C17_InitialStepAlways == FirstCallReturned => configuration = Descent

(* C17, amended: when the first execute_once on a fresh interpreter        *)
(* returns, the configuration is the stabilized descent from the root,     *)
(* without the root and the Final child of the root if the descent enters  *)
(* one (they are exited again).                                            *)
C17_InitialStep ==
    FirstCallReturned =>
        configuration =
            IF Descent \cap RootFinals = {} THEN Descent
            ELSE Descent \ (RootFinals \cup {TheChart.root})

(* The first call returned and the descent went through a history state,   *)
(* whose default memory is active in place of the Compound's other child.  *)
C17_Witness ==
    /\ FirstCallReturned
    /\ \E h \in HistoryStates("shallow") :
           /\ h \in Range(last.entered) /\ h \notin configuration
           /\ TheChart.memory[h] \in configuration
           /\ Cardinality(configuration) = 3

(* ---- returning absent -------------------------------------------------- *)
(* No event queued when the call began was due at the time the call took   *)
(* from the clock.                                                         *)
NothingDue == \A i \in 1..Len(last.preQueue) : last.preQueue[i].time > time
ReturnedInitialized == Returned /\ ~last.initial
AbsentLeavesState ==
    (Returned /\ last.result = "none") =>
        /\ configuration = last.preConf
        /\ memory = last.preMem
        /\ event_queue = last.preQueue

(* C19, as stated: a call of execute_once on an initialized interpreter    *)
(* that returns, returns absent if and only if no queued event is due; and *)
(* a call that returns absent leaves configuration, memory and queue as    *)
(* they were.                                                              *)
C19_AbsentIffNothingDue ==
    /\ ReturnedInitialized => (last.result = "none" <=> NothingDue)
    /\ AbsentLeavesState

(* C19, amended: a call of execute_once on an initialized interpreter that *)
(* returns, returns absent if and only if no queued event is due and no    *)
(* eventless transition with an active source has an absent or passing     *)
(* guard; and a call that returns absent leaves configuration, memory and  *)
(* queue as they were.                                                     *)
C19_AbsentIffNothingToDo ==
    /\ ReturnedInitialized
           => (last.result = "none" <=> (NothingDue /\ ~EventlessEnabled))
    /\ AbsentLeavesState

(* Absent was returned although an event was queued (it was not due).      *)
C19_Witness ==
    /\ ReturnedInitialized /\ last.result = "none"
    /\ last.preQueue # <<>> /\ last.preConf # {}

(* ---- execute ----------------------------------------------------------- *)
Executed == last.op = "execute" /\ last.result = "list"
ReturnedConfigurations == [i \in 1..Len(last.returned) |-> last.returned[i].configuration]
QueuedNames(q) == [i \in 1..Len(q) |-> q[i].name]
(* execute() was called on the newly constructed light switch with press,  *)
(* press queued.                                                           *)
SwitchScenario ==
    /\ chart = 8 /\ Executed /\ last.initial /\ last.max_steps = -1
    /\ QueuedNames(last.preQueue) = <<"press", "press">>

(* C18, as stated: on the newly constructed light switch with press, press *)
(* queued, execute returns two macro steps, leaving {root, on} and then    *)
(* {root, off}.                                                            *)
C18_LightSwitchTwoSteps ==
    SwitchScenario =>
        ReturnedConfigurations = <<{"root", "on"}, {"root", "off"}>>

(* C18, amended: it returns three macro steps, the first being the initial *)
(* step, leaving {root, off}, then {root, on}, then {root, off}; the two   *)
(* later steps consume press and the queue is empty afterwards.            *)
C18_LightSwitch ==
    SwitchScenario =>
        /\ ReturnedConfigurations
               = <<{"root", "off"}, {"root", "on"}, {"root", "off"}>>
        /\ [i \in 1..Len(last.returned) |-> last.returned[i].event]
               = <<None, "press", "press">>
        /\ configuration = {"root", "off"}
        /\ event_queue = <<>>

C18_Witness == SwitchScenario /\ Len(last.returned) = 3

(* The list execute returned holds the macro step of every call of         *)
(* execute_once but the one that returned absent, if one did: the steps    *)
(* are of the time of the call and the last one left the configuration.    *)
ReturnsWhatItPerformed ==
    /\ last.calls \in {Len(last.returned), Len(last.returned) + 1}
    /\ \A i \in 1..Len(last.returned) : last.returned[i].time = time
    /\ configuration = IF last.returned = <<>> THEN last.preConf
                       ELSE last.returned[Len(last.returned)].configuration
(* The loop ended because a call of execute_once returned absent.          *)
EndedOnAbsent == last.calls = Len(last.returned) + 1

UnmatchedEvent ==
    /\ Called /\ ~last.initial
    /\ last.event # None /\ last.selected = <<>>

(* C25. Unmatched event is consumed: when an event is due and no           *)
(* transition is selected, execute_once makes a macro step of one empty    *)
(* micro step carrying that event, pops exactly that event (the earliest   *)
(* due one) and leaves configuration and memory unchanged.  The macro step *)
(* is returned unless a bound property statechart is final by then.        *)
C25_UnmatchedConsumed ==
    UnmatchedEvent =>
        /\ last.result = IF FinalProperties(bound_properties) # {}
                         THEN "PropertyStatechartError" ELSE "step"
        /\ last.applied = 1 /\ last.consumed = last.event
        /\ last.fired = <<>> /\ last.entered = <<>> /\ last.exited = <<>>
        /\ Len(last.popped) = 1 /\ last.popped[1].name = last.event
        /\ last.popped[1] = Head(last.preQueue)
        /\ Len(event_queue) = Len(last.preQueue) - 1
        /\ event_queue = Without(last.preQueue, last.popped)
        /\ configuration = last.preConf
        /\ memory = last.preMem

(* An unmatched event was consumed in a configuration where a guarded      *)
(* transition with that event did not pass, other events staying queued.   *)
C25_Witness ==
    /\ UnmatchedEvent /\ last.result = "step"
    /\ configuration # {} /\ event_queue # <<>>
    /\ \E i \in 1..Len(TheChart.transitions) :
           /\ EventOf(TheChart, i) = last.event
           /\ SourceOf(TheChart, i) \in last.preConf

(* ---- stabilization ----------------------------------------------------- *)
(* The leaves of the configuration that give a stabilization step.         *)
UnstableLeaves ==
    {s \in LeafFor(TheChart, configuration) :
        \/ KindOf(TheChart, s) \in {"shallow", "deep"}
        \/ KindOf(TheChart, s) = "orthogonal" /\ ChildrenOf(s) # {}
        \/ KindOf(TheChart, s) = "compound" /\ TheChart.initial[s] # None
        \/ s \in RootFinals}

(* C29. Stabilization reaches a fixed point: a macro step ends after       *)
(* finitely many micro steps (no more than twice the states of the chart   *)
(* for each applied transition or initial step), and when execute_once     *)
(* returns it no active leaf is a history state, an Orthogonal with        *)
(* children, a Compound with an initial child or a Final child of the      *)
(* root.                                                                   *)
C29_StabilizationFixedPoint ==
    (Called /\ last.result = "step") =>
        /\ UnstableLeaves = {}
        /\ last.applied
               <= (Len(last.fired) + 1) * (Cardinality(TheChart.states)
                                           + Cardinality(TheChart.states))

(* A macro step whose transition was followed by two or more stabilization *)
(* steps.                                                                  *)
C29_Witness ==
    /\ Returned /\ ~last.initial
    /\ Len(last.fired) = 1 /\ last.applied >= 3

(* ------------------------------------------------------------------------ *)
(* C30. Selection errors leave the state untouched: when execute_once       *)
(* raises NonDeterminism or ConflictingTransitions, the call has emitted no *)
(* meta-event (it did nothing at all: its record is empty and the property  *)
(* statecharts are as they were), has popped no event, and the              *)
(* configuration, the history memory and the queue are as before the call,  *)
(* so that the event the call looked at is still the head of the queue and  *)
(* is the one the next call selects.                                        *)
SelectionError ==
    Called /\ last.result \in {"NonDeterminism", "ConflictingTransitions"}
C30_SelectionErrorsLeaveState ==
    SelectionError =>
        /\ last.log = <<>>
        /\ bound_properties = last.preProps
        /\ last.popped = <<>> /\ last.consumed = None
        /\ event_queue = last.preQueue
        /\ configuration = last.preConf
        /\ memory = last.preMem
        /\ last.fired = <<>> /\ last.applied = 0
        /\ last.event # None =>
               /\ event_queue # <<>>
               /\ Head(event_queue).name = last.event
               /\ SelectEvent(event_queue, time) = last.event
C30_Witness ==
    /\ SelectionError /\ last.event # None
    /\ Len(event_queue) > 1 /\ configuration # {}

(* ---- what a call did, micro step by micro step -------------------------- *)
StepLines == {k \in 1..Len(last.log) : last.log[k].op = "step"}
NextStepLine(k) ==
    IF \E j \in StepLines : j > k
    THEN CHOOSE j \in StepLines : j > k /\ \A m \in StepLines : m > k => j <= m
    ELSE Len(last.log) + 1
(* The lines of the micro step that begins at line k, and those of the     *)
(* micro step of the fired transition i.                                   *)
LogFrom(k) == SubSeq(last.log, k + 1, NextStepLine(k) - 1)
MicroStepLog(i) == LogFrom(CHOOSE k \in StepLines : last.log[k].n = i)
Lines(seq, ops) == SelectSeq(seq, LAMBDA x : x.op \in ops)
Names(seq, op) == [j \in 1..Len(Lines(seq, {op})) |-> Lines(seq, {op})[j].name]
SteppedOk == Called /\ last.result = "step"

(* ------------------------------------------------------------------------ *)
(* C24. Self-targeting transition.                                          *)
SelfTargeting(i) ==
    /\ TargetOf(TheChart, i) # None
    /\ TargetOf(TheChart, i) \in {SourceOf(TheChart, i)} \cup StrictAncestors(SourceOf(TheChart, i))
FiredSelfTargeting == {i \in Range(last.fired) : SelfTargeting(i)}
DescendantsIn(s, conf) == conf \cap Range(DescendantsFor(TheChart, s))

(* C24, as stated: when a transition whose target is its source or an      *)
(* ancestor of its source has fired, its micro step exits the active       *)
(* descendants of the target and the target and enters the target again,   *)
(* and at the end of the macro step the source and its descendants that    *)
(* were active before the step are active again.                           *)
C24_SelfTargetRestoresSource ==
    SteppedOk =>
        \A i \in FiredSelfTargeting :
            /\ Range(Names(MicroStepLog(i), "exit"))
                   = DescendantsIn(TargetOf(TheChart, i), last.preConf)
                       \cup {TargetOf(TheChart, i)}
            /\ Names(MicroStepLog(i), "enter") = <<TargetOf(TheChart, i)>>
            /\ SourceOf(TheChart, i) \in configuration
            /\ DescendantsIn(SourceOf(TheChart, i), last.preConf) \subseteq configuration

(* C24, amended: when a transition whose target is its source or an        *)
(* ancestor of its source has fired, its micro step exits the active       *)
(* descendants of the target, then the target, and enters the target       *)
(* again and nothing else; at the end of the macro step the target is      *)
(* active, and below it are active the states the stabilization enters     *)
(* from it, whichever were active before.                                  *)
C24_SelfTargetReenters ==
    SteppedOk =>
        \A i \in FiredSelfTargeting :
            /\ Range(Names(MicroStepLog(i), "exit"))
                   = DescendantsIn(TargetOf(TheChart, i), last.preConf)
                       \cup {TargetOf(TheChart, i)}
            /\ Names(MicroStepLog(i), "exit")[Len(Names(MicroStepLog(i), "exit"))]
                   = TargetOf(TheChart, i)
            /\ Names(MicroStepLog(i), "enter") = <<TargetOf(TheChart, i)>>
            /\ Lines(MicroStepLog(i), {"exit", "action", "enter"})[
                   Len(Names(MicroStepLog(i), "exit")) + 1].op = "action"
            /\ TargetOf(TheChart, i) \in configuration
            /\ DescendantsIn(TargetOf(TheChart, i), configuration)
                       \cup {TargetOf(TheChart, i)}
                   = DescentFrom({TargetOf(TheChart, i)})
C24_Witness ==
    /\ SteppedOk
    /\ \E i \in FiredSelfTargeting :
           /\ TargetOf(TheChart, i) \in StrictAncestors(SourceOf(TheChart, i))
           /\ SourceOf(TheChart, i) \notin configuration
           /\ TargetOf(TheChart, i) \in configuration
    /\ \E i \in FiredSelfTargeting : TargetOf(TheChart, i) = SourceOf(TheChart, i)

(* ------------------------------------------------------------------------ *)
(* C26. Order of fired transitions: the transitions a call fires are fired  *)
(* by decreasing depth of their source, those of equal depth by ascending   *)
(* name of their source; a macro step that ends fires every selected        *)
(* transition, once; and every micro step of a transition but the first one *)
(* of the call begins in a configuration in which stabilization has         *)
(* nothing left to do.                                                      *)
TransitionStepLines == {k \in StepLines : last.log[k].n # 0}
FiresBefore(i, j) ==
    \/ DepthFor(TheChart, SourceOf(TheChart, i)) > DepthFor(TheChart, SourceOf(TheChart, j))
    \/ /\ DepthFor(TheChart, SourceOf(TheChart, i)) = DepthFor(TheChart, SourceOf(TheChart, j))
       /\ NameIdx(SourceOf(TheChart, i)) <= NameIdx(SourceOf(TheChart, j))
C26_FiredInOrder ==
    Called =>
        /\ \A j, k \in 1..Len(last.fired) : j < k => FiresBefore(last.fired[j], last.fired[k])
        /\ \A j, k \in TransitionStepLines :
               j < k => /\ FiresBefore(last.log[j].n, last.log[k].n)
                        /\ last.log[k].name = "stable"
        /\ SteppedOk =>
               /\ Range(last.fired) = Range(last.selected)
               /\ Len(last.fired) = Len(last.selected)
               /\ Len(last.fired) = Cardinality(TransitionStepLines)
C26_Witness ==
    /\ SteppedOk /\ Len(last.fired) = 2
    /\ DepthFor(TheChart, SourceOf(TheChart, last.fired[1]))
           > DepthFor(TheChart, SourceOf(TheChart, last.fired[2]))
    /\ \E j, k \in TransitionStepLines :
           j < k /\ \E m \in StepLines : j < m /\ m < k /\ last.log[m].n = 0

(* ------------------------------------------------------------------------ *)
(* C23. Listener delivery: the internal events the actions of a call sent   *)
(* are pushed on the queue of the interpreter once each, in the order they  *)
(* were sent; each push is followed, before anything else is pushed, by one  *)
(* call of each bound listener, in the order of binding, with an Event of   *)
(* the same name, or a DelayedEvent of the same name and delay when the     *)
(* event sent is delayed; a meta-event an action sent is given to the       *)
(* property statecharts and is neither pushed nor delivered.                *)
MetaNames ==
    {e.name : e \in {x \in UNION ({Range(TheChart.on_entry[st]) : st \in TheChart.states}
                                    \cup {Range(TheChart.on_exit[st]) : st \in TheChart.states}
                                    \cup {Range(TheChart.transitions[i].sends) :
                                              i \in 1..Len(TheChart.transitions)}) : x.meta}}
PushLines == {k \in 1..Len(last.log) : last.log[k].op = "push"}
DeliverLines == {k \in 1..Len(last.log) : last.log[k].op = "deliver"}
C23_ListenerDelivery ==
    Called =>
        /\ Lines(last.log, {"push"})
              = [k \in 1..Len(last.sent) |->
                    Did("push", last.sent[k].name, "internal", 0, last.sent[k].delay)]
        /\ \A k \in PushLines :
               /\ k + 1 + Len(bound) <= Len(last.log)
               /\ last.log[k + 1].op = "notify"
               /\ last.log[k + 1].name = IF last.log[k].d > 0 THEN "delayed event sent"
                                         ELSE "event sent"
               /\ \A b \in 1..Len(bound) :
                      last.log[k + 1 + b]
                         = Did("deliver", last.log[k].name,
                               IF last.log[k].d > 0 THEN "DelayedEvent" ELSE "Event",
                               bound[b], last.log[k].d)
        /\ Cardinality(DeliverLines) = Len(last.sent) * Len(bound)
        /\ Len(last.raised) = Len(last.sent)
        /\ \A k \in 1..Len(last.sent) :
               last.raised[k] = Entry(time, last.sent[k].name, last.sent[k].delay, TRUE)
        /\ Len(event_queue) = Len(last.preQueue) - Len(last.popped) + Len(last.sent)
        /\ \A k \in PushLines \cup DeliverLines : last.log[k].name \notin MetaNames
        /\ \A k \in 1..Len(event_queue) : event_queue[k].name \notin MetaNames
        /\ \A k \in 1..Len(last.sent) : ~last.sent[k].meta
C23_Witness ==
    /\ SteppedOk /\ Len(bound) = 2 /\ Len(last.sent) = 2
    /\ last.sent[1].name # last.sent[2].name
    /\ \E k \in 1..Len(last.log) :
           last.log[k].op = "notify" /\ last.log[k].name \in MetaNames
    /\ Cardinality(DeliverLines) = 4

(* ------------------------------------------------------------------------ *)
(* C27. Order inside a micro step: in every micro step of a call the exits  *)
(* come first, no state leaving before a descendant of it that leaves in    *)
(* the same step; then the action of the transition; then the entries, no   *)
(* state entering before an ancestor of it that enters in the same step;    *)
(* and only then are the events the exit, transition and entry actions sent *)
(* raised (pushed and delivered, or for a meta-event notified), in the      *)
(* order in which those actions ran.                                        *)
IsRaise(line) ==
    \/ line.op \in {"push", "deliver"}
    \/ line.op = "notify" /\ line.name \in MetaNames
Rank(line) ==
    CASE line.op = "exit" -> 1
      [] line.op = "action" -> 2
      [] line.op = "enter" -> 3
      [] OTHER -> 4
Phases(seq) ==
    SelectSeq(seq, LAMBDA x : x.op \in {"exit", "action", "enter"} \/ IsRaise(x))
(* The events the actions of the lines sent, in the order of the lines.    *)
Collected(seq) ==
    Flatten([j \in 1..Len(Lines(seq, {"exit", "action", "enter"})) |->
                LET x == Lines(seq, {"exit", "action", "enter"})[j]
                IN CASE x.op = "exit" -> TheChart.on_exit[x.name]
                     [] x.op = "enter" -> TheChart.on_entry[x.name]
                     [] OTHER -> TheChart.transitions[x.n].sends])
(* The events raised in the lines, in order.                               *)
RaisedIn(seq) ==
    [j \in 1..Len(SelectSeq(seq, LAMBDA x : IsRaise(x) /\ x.op # "deliver")) |->
        LET x == SelectSeq(seq, LAMBDA y : IsRaise(y) /\ y.op # "deliver")[j]
        IN IF x.op = "push" THEN Sent(x.name, x.d) ELSE SentMeta(x.name)]
MicroStepInOrder(seq) ==
    /\ \A phases \in {Phases(seq)} :
           \A j, m \in 1..Len(phases) : j < m => Rank(phases[j]) <= Rank(phases[m])
    /\ Len(Lines(seq, {"action"})) <= 1
    /\ \A j, m \in 1..Len(Names(seq, "exit")) :
           j < m => Names(seq, "exit")[m]
                       \notin Range(DescendantsFor(TheChart, Names(seq, "exit")[j]))
    /\ \A j, m \in 1..Len(Names(seq, "enter")) :
           j < m => Names(seq, "enter")[j]
                       \notin Range(DescendantsFor(TheChart, Names(seq, "enter")[m]))
    /\ RaisedIn(seq) \in {<<>>, Collected(seq)}
C27_OrderInsideMicroStep ==
    Called =>
        /\ \A k \in StepLines : \A seq \in {LogFrom(k)} : MicroStepInOrder(seq)
        /\ SteppedOk =>
               \A k \in StepLines : \A seq \in {LogFrom(k)} : RaisedIn(seq) = Collected(seq)
        /\ \A k \in 1..Len(last.log) :
               last.log[k].op \in {"exit", "action", "enter", "push", "deliver"}
                   => \E j \in StepLines : j < k
C27_Witness ==
    /\ SteppedOk
    /\ \E k \in StepLines :
           /\ Len(Names(LogFrom(k), "exit")) = 1
           /\ Len(Lines(LogFrom(k), {"action"})) = 1
           /\ Len(Names(LogFrom(k), "enter")) = 1
           /\ Len(RaisedIn(LogFrom(k))) = 3
    /\ \E k \in StepLines :
           /\ Len(Names(LogFrom(k), "exit")) = 2
           /\ Len(Names(LogFrom(k), "enter")) = 2

(* ------------------------------------------------------------------------ *)
(* C22. No rollback on contract failure: when a condition of the contract   *)
(* is found unsatisfied during a call, the exception leaves execute_once at *)
(* once (nothing is done after the failed evaluation: no exit, entry, push, *)
(* notification or check of the properties), and the interpreter stays as   *)
(* the call had made it: the states that left or joined the configuration   *)
(* before the failure stay so, the state whose precondition failed on entry *)
(* has not joined, the state whose postcondition failed on exit has left,   *)
(* the events pushed so far stay queued and the consumed event is not put   *)
(* back.                                                                    *)
ContractErrors == {"PreconditionError", "PostconditionError", "InvariantError"}
ContractFailed == Called /\ last.result \in ContractErrors
RECURSIVE Replay(_, _)
Replay(conf, seq) ==
    IF seq = <<>> THEN conf
    ELSE Replay(CASE Head(seq).op = "exit" -> conf \ {Head(seq).name}
                  [] Head(seq).op = "enter" -> conf \cup {Head(seq).name}
                  [] OTHER -> conf,
                Tail(seq))
C22_NoRollback ==
    ContractFailed =>
        /\ ~ignore_contract
        /\ last.failed \in last.unsatisfied
        /\ last.result = ContractError(last.failed.cond_type)
        /\ last.log # <<>>
        /\ last.log[Len(last.log)].op = "raise"
        /\ Lines(last.log, {"raise"}) = <<last.log[Len(last.log)]>>
        /\ \A k \in 1..Len(last.log) :
               ~(last.log[k].op = "notify" /\ last.log[k].name = "step ended")
        /\ ~last.checked
        /\ configuration = Replay(last.preConf, last.log)
        /\ (last.failed.state # None /\ last.failed.cond_type # "invariants")
               => last.failed.state \notin configuration
        /\ (last.failed.state # None /\ last.failed.cond_type = "invariants")
               => last.failed.state \in configuration
        /\ last.event # None /\ last.selected # <<>> /\ ~IsEventless(last.selected[1])
               => /\ Len(last.popped) = 1
                  /\ last.popped[1].name = last.event
        /\ \A x \in Range(last.preQueue) \cup Range(event_queue) :
               Count(event_queue, x)
                  = Count(last.preQueue, x) - Count(last.popped, x)
                       + Count(Lines(last.log, {"push"}),
                               Did("push", x.name, "internal", 0, x.time - time))
C22_Witness ==
    /\ ContractFailed
    /\ last.failed = Cond("d", 0, "preconditions", "-")
    /\ "c" \in last.preConf /\ "c" \notin configuration /\ "d" \notin configuration
    /\ Len(last.popped) = 1
    /\ Count(event_queue, last.popped[1]) < Count(last.preQueue, last.popped[1])
    /\ \E k \in 1..Len(last.log) : last.log[k].op = "action"

(* ------------------------------------------------------------------------ *)
(* C21. Contract suppression: on an interpreter constructed with            *)
(* ignore_contract no call raises PreconditionError, PostconditionError or  *)
(* InvariantError, whichever conditions of the contract are unsatisfied,    *)
(* and every call leaves the configuration that the same call, with the     *)
(* same guards passing, leaves on an interpreter in the same state without  *)
(* the flag when every condition is satisfied.                              *)
C21_ContractSuppression ==
    (ignore_contract /\ Called) =>
        /\ last.result \notin ContractErrors
        /\ last.failed = NoCond
        /\ Lines(last.log, {"raise"}) = <<>>
        /\ configuration = last.reference.configuration
        /\ last.applied = last.reference.applied
(* With ignore_contract, c -e-> d was made although the precondition of d   *)
(* was unsatisfied.                                                         *)
C21_Witness ==
    /\ ignore_contract /\ SteppedOk
    /\ last.unsatisfied = {Cond("d", 0, "preconditions", "-")}
    /\ "d" \in Range(last.entered) /\ "d" \in configuration
    /\ ActTransition \in Range(last.fired)

(* ------------------------------------------------------------------------ *)
(* C28. Deferred violation: a property statechart that is in a final        *)
(* configuration after a notification made during a macro step of the host  *)
(* does not stop the step: the call goes on as it does without property     *)
(* statecharts (same number of micro steps, every selected transition       *)
(* fired, same configuration at the end, a stable one), notifies            *)
(* 'step ended' last of all, and only then raises                           *)
(* PropertyStatechartError.                                                 *)
ViolatingLines ==
    {k \in 1..Len(last.log) : last.log[k].op = "notify" /\ last.log[k].n = 1}
HostErrors == {"KeyError", "AssertionError"} \cup ContractErrors
RemovedInactive == Called /\ last.result = "KeyError"
C31_ExitedAreActive == ~RemovedInactive

(* ------------------------------------------------------------------------ *)
(* C32. Homogeneous trigger and single consumption: in every call of        *)
(* execute_once the selected and the fired transitions are either all       *)
(* eventless, and then no event is popped, or all triggered by the name of  *)
(* the event the call pops; a call pops at most one event (the queue loses  *)
(* one entry at most besides the ones the call raised), and the popped      *)
(* event is the one peeked for the selection: the due head of the queue.    *)
TriggeredBy(seq, name) == \A k \in 1..Len(seq) : EventOf(TheChart, seq[k]) = name
C32_HomogeneousTrigger ==
    Called =>
        /\ Len(last.popped) <= 1
        /\ Len(event_queue) = Len(last.preQueue) - Len(last.popped) + Len(last.raised)
        /\ last.popped # <<>> =>
               /\ last.popped[1] = Head(last.preQueue)
               /\ last.popped[1].name = last.event
               /\ last.popped[1].time <= time
               /\ last.consumed = last.event
        /\ TriggeredBy(last.fired, None) \/ TriggeredBy(last.fired, last.event)
        /\ TriggeredBy(last.selected, None) \/ TriggeredBy(last.selected, last.event)
        /\ (last.fired # <<>> /\ TriggeredBy(last.fired, None)) => last.popped = <<>>
        /\ (last.fired # <<>> /\ ~TriggeredBy(last.fired, None)) =>
               /\ last.popped # <<>>
               /\ TriggeredBy(last.fired, last.popped[1].name)

(* Two transitions triggered by the due event fired in one macro step,     *)
(* which popped that event and left another one queued behind it.          *)
C32_Witness ==
    /\ Called /\ last.result = "step"
    /\ Len(last.fired) >= 2 /\ TriggeredBy(last.fired, last.event)
    /\ last.event # None /\ Len(last.popped) = 1
    /\ Len(last.preQueue) >= 2 /\ event_queue # <<>>
    /\ event_queue = Tail(last.preQueue)

====
